---- MODULE Spec2Model ----
(***************************************************************************)
(* Contract extraction service: field normalization, template population,  *)
(* coordinate compaction, CRM payload flattening and CRM record creation.  *)
(*                                                                         *)
(* Python objects are modelled with an explicit heap: a dict that the code *)
(* shares by reference is one heap cell named by two keys, and a deepcopy  *)
(* is a new cell.  JSON text is a sequence of one-character strings.       *)
(***************************************************************************)
EXTENDS Integers, Sequences, FiniteSets, TLC

VARIABLES
    \* update_extracted_value and populate_template
    json_data,       \* flat extraction document: field name -> heap address
    heap,            \* heap address -> field object (a dict)
    response_data,   \* templated contract document, NoDoc before templating
    calls,           \* the functions applied to the document so far, in order
    raised,          \* exception raised by the last call ("None" when it returned)
    parsed,          \* the flat document as json.loads returned it: field name -> object
    \* json.dumps and compact_coordinates
    document,        \* the document handed to json.dumps (a JSON value)
    json_text,       \* the text: after json.dumps, then after compact_coordinates
    dumped,          \* the text as json.dumps returned it
    stage,           \* "document", "dumped", "compacted"
    \* flatten_extracted_data
    data_dict,       \* one table's fields: field name -> field data
    flattened,       \* the record payload, NoDoc before the call
    \* upload_to_airtable
    airtable_configured, \* airtable_api_key and airtable_base_id are both set
    json_file,       \* the text handed over: [valid, data], data the tables it parses to
    pc,              \* position in upload_to_airtable: [phase, index]
    agreement_name,  \* resolved from Details."Agreement Name", None when absent
    account_record_id,   \* id of the created Account record, 0 for None
    contact_record_id,   \* id of the created Contacts record, 0 for None
    record_id,       \* CRM table name -> id of the record created in it
    airtable,        \* the CRM: its records in creation order, the id is the index
    api_calls,       \* every create and update call made, in order
    airtable_result, \* the return value, "pending" until the function returns
    \* the service of app.py
    config,          \* which environment variables are set, and whether the database answers
    mongo_collection,    \* the module's mongo_collection: "None", "str" or "Collection"
    collection,      \* the documents of the database collection, in insertion order
    crm,             \* the CRM's records in creation order, the id is the index
    external_calls,  \* every call made to the CRM, object storage and the database
    filesystem,      \* [temp, outputs]: temporary directories and written output files
    request,         \* the request being served, with the handler's position
    response,        \* the response to the last request served
    clock            \* time(), also the source of fresh names

docVars == <<json_data, heap, response_data, calls, raised, parsed>>

textVars == <<document, json_text, dumped, stage>>

flatVars == <<data_dict, flattened>>

crmVars == <<airtable_configured, json_file, pc, agreement_name, account_record_id,
             contact_record_id, record_id, airtable, api_calls, airtable_result>>

appVars == <<config, mongo_collection, collection, crm, external_calls, filesystem,
             request, response, clock>>

vars == <<docVars, textVars, flatVars, crmVars, appVars>>

(***************************************************************************)
(* Bounds.                                                                 *)
(***************************************************************************)
MaxPage == 1        \* Position.Page of an extracted field ranges over 1..MaxPage

MaxStrLen == 5      \* longest Extracted Value string given to json.dumps

MaxArrayLen == 2    \* longest numeric array given to json.dumps

MaxListLen == 2     \* longest list-valued Extracted Value given to flatten_extracted_data

MaxRecords == 1     \* most contract records stored before the reviewer requests start

MaxRequests == 2    \* most reviewer and fetch requests served in one behaviour

(***************************************************************************)
(* Python dict helpers.                                                    *)
(***************************************************************************)
Get(d, k, default) == IF k \in DOMAIN d THEN d[k] ELSE default

Put(d, k, v) == [x \in DOMAIN d \cup {k} |-> IF x = k THEN v ELSE d[x]]

EmptyDict == [x \in {} |-> ""]

(***************************************************************************)
(* Controlled vocabularies (post_processing.py).                           *)
(***************************************************************************)
choice_of_law_mapping ==
    [k \in { "California", "Florida", "New York", "Tennessee", "United States",
             "Australia", "Canada", "Germany", "Denmark", "England & Wales",
             "France", "United Kingdom of Great Britain and Northern Ireland",
             "Ireland", "Japan", "Korea", "Mexico", "New Zealand", "Puerto Rico" } |->
        CASE k = "California" -> "CA - California"
          [] k = "Florida" -> "FL - Florida"
          [] k = "New York" -> "NY - New York"
          [] k = "Tennessee" -> "TN - Tennessee"
          [] k = "United States" -> "USA - United States"
          [] k = "Australia" -> "AUS - Australia"
          [] k = "Canada" -> "CAN - Canada"
          [] k = "Germany" -> "DEU - Germany"
          [] k = "Denmark" -> "DNK - Denmark"
          [] k = "England & Wales" -> "EAW - England & Wales"
          [] k = "France" -> "FRA - France"
          [] k = "United Kingdom of Great Britain and Northern Ireland" ->
                 "GBR - United Kingdom of Great Britain and Northern Ireland"
          [] k = "Ireland" -> "IRL - Ireland"
          [] k = "Japan" -> "JPN - Japan"
          [] k = "Korea" -> "KOR - Korea"
          [] k = "Mexico" -> "MEX - Mexico"
          [] k = "New Zealand" -> "NZL - New Zealand"
          [] k = "Puerto Rico" -> "PRI - Puerto Rico"]

currency_mapping ==
    [k \in { "USD", "AUD", "EUR", "GBP", "MXN", "NZD" } |->
        CASE k = "USD" -> "USD - U.S. Dollar"
          [] k = "AUD" -> "AUD - Australian Dollar"
          [] k = "EUR" -> "EUR - Euro"
          [] k = "GBP" -> "GBP - British Pound"
          [] k = "MXN" -> "MXN - Mexican Peso"
          [] k = "NZD" -> "NZD - New Zealand Dollar"]

pro_accepted_list ==
    { "ACEMLA", "AllTrack", "MCOS", "AMRA", "APRA", "ASCAP", "BMI", "CMRRA",
      "GMR", "IMRO", "JASRAC", "KODA", "MCPSI", "PPCA", "PPI", "PPL",
      "Pro Music Rights", "PRS", "Re:Sound", "SACD", "SACEM", "SESAC",
      "SOCAN", "SoundExchange" }

(***************************************************************************)
(* Field objects and document nodes.                                       *)
(***************************************************************************)
EV == "Extracted Value"

POS == "Position"

CoL == "Choice of Law"

CUR == "Currency"

PRO == "Performing Rights Organization"

OtherPRO == "Other Performing Rights Organization"

PassThrough == "[Prior] Pass-Through Income Included in Concord"

\* {"Extracted Value": v, "Position": {"Page": p, ...}}
Field(v, p) == [k \in {EV, POS} |-> IF k = EV THEN v ELSE p]

\* {"Extracted Value": v}
FieldNoPos(v) == [k \in {EV} |-> v]

\* A nested dict, a string leaf, a reference to a field object on the heap.
Dict(items) == [kind |-> "dict", items |-> items]

Str(s) == [kind |-> "str", s |-> s]

Ref(a) == [kind |-> "ref", addr |-> a]

NoDoc == [kind |-> "none"]

(***************************************************************************)
(* Each specification drives one group of variables; the others stay at    *)
(* these values.                                                           *)
(***************************************************************************)
IdleDoc ==
    /\ json_data = EmptyDict
    /\ heap = EmptyDict
    /\ response_data = NoDoc
    /\ calls = <<>>
    /\ raised = "None"
    /\ parsed = EmptyDict

IdleText ==
    /\ document = NoDoc
    /\ json_text = <<>>
    /\ dumped = <<>>
    /\ stage = "idle"

IdleFlat ==
    /\ data_dict = EmptyDict
    /\ flattened = NoDoc

IdleCrm ==
    /\ airtable_configured = FALSE
    /\ json_file = [valid |-> FALSE, data |-> EmptyDict]
    /\ pc = [phase |-> "idle", index |-> 0]
    /\ agreement_name = [type |-> "none"]
    /\ account_record_id = 0
    /\ contact_record_id = 0
    /\ record_id = EmptyDict
    /\ airtable = <<>>
    /\ api_calls = <<>>
    /\ airtable_result = [type |-> "pending"]

\* The service is not running.
IdleApp ==
    /\ config = [airtable |-> FALSE, s3 |-> FALSE, uri |-> FALSE, database |-> FALSE,
                 collection |-> FALSE, live |-> FALSE]
    /\ mongo_collection = "None"
    /\ collection = <<>>
    /\ crm = <<>>
    /\ external_calls = <<>>
    /\ filesystem = [temp |-> EmptyDict, outputs |-> {}]
    /\ request = [endpoint |-> "none"]
    /\ response = [status |-> 0]
    /\ clock = 0

(***************************************************************************)
(* concord_template (post_processing.py): 8 tables, 85 field names.        *)
(***************************************************************************)
AccountFields ==
  { "Account Name",
    "Type",
    "Description",
    "Billing Street",
    "Billing City",
    "Billing Zip/Postal Code",
    "Billing State/Province",
    "Billing Country" }

ContactsFields ==
  { "First Name",
    "Last Name" }

DetailsFields ==
  { "Concord Party",
    "Agreement Name",
    "Currency",
    "Commitment End Date",
    "Agreement Type",
    "Assignability of Contract",
    "Assignability of Contract Details",
    "Change of Control",
    "Change of Control Details",
    "Key Person Provision",
    "Key Person Provision Details" }

DocumentsFields ==
  { "Schedule A Received" }

GeneralInformationFields ==
  { "Effective Date",
    "Execution Date",
    "Territory",
    "Other Territory",
    "Excluded Territories",
    "Term Definition",
    "Number of Contract Periods",
    "Other number of Contract Periods",
    "Are there Options?",
    "Length of Each Contract Period",
    "Minimum Delivery Commitment?",
    "Minimum Delivery Commitment Amount",
    "Minimum Delivery Release Commitment?",
    "Min Delivery Release Commitment Amount",
    "Catalog (Full / Partial)",
    "All Songs Written During Term",
    "All Songs Acquired during Term",
    "All Songs Prior to Term",
    "Only Songs on Artist's Album",
    "[Prior] Pass-Through Income Included in Concord",
    "Rights Granted: Assignment Copyrights",
    "Rights Granted: General",
    "Rights Granted: Master Representation",
    "Rights Granted: Sync Camp",
    "Rights Granted: Demos",
    "Rights Excluded",
    "Right of First Negotiation / Match Right",
    "Choice of Law",
    "Choice of Law - Other" }

LicensingApprovalsFields ==
  { "Licensing Approval Notes",
    "Licensing: Any ad for personal hygiene, firearms or tobacco products",
    "Licensing: Any political or religious use",
    "Licensing: Samples and interpolations",
    "Licensing: Fundamental adaptations / translations / etc. to music, lyrics, title, or harmonic structure",
    "Licensing: Issue blanket licenses including the Comps",
    "Licensing: Licence the Compositions for period with extends beyond the Rights Period",
    "Name & Likeness Approval Notes",
    "Name & Likeness Approvals",
    "Sync Master Rep Approval Notes",
    "Synchronization: Films, Television Programmes, Advertisements, Computer Games, Interactive Devices, Videos",
    "Miscellaneous Licensing Notes",
    "Print: Print, publish and vend, and license the same",
    "Mechanical: Issue \"first use\" mechanical licenses",
    "Mechanical: Issue mechanical reproduction licenses at less than full statutory rate for the US",
    "Performance: Grand rights licenses and right to dramatize",
    "Terms of Approval for Licensing" }

RAndAFields ==
  { "Royalty Basis",
    "Definition of Royalty Basis",
    "Definition of Gross Income",
    "At Source",
    "Frequency of Accounting / Statements",
    "Payments/Statements Due within",
    "Agreement Royalties",
    "General Master Rep Royalty",
    "Camp Master Rep Royalty",
    "Royalty Escalation",
    "Retroactive Collection" }

RegistrationInformationFields ==
  { "Writer(s) CAE/IPI Name",
    "Writer(s) CAE/IPI Number",
    "Publishing Designee(s) IPI Number",
    "Publishing Designee(s) IPI Name",
    "Performing Rights Organization",
    "Other Performing Rights Organization" }

TableNames ==
    { "Account", "Contacts", "Details", "Documents", "General Information",
      "Licensing Approvals", "R & A", "Registration Information" }

TableFields(t) ==
    CASE t = "Account" -> AccountFields
      [] t = "Contacts" -> ContactsFields
      [] t = "Details" -> DetailsFields
      [] t = "Documents" -> DocumentsFields
      [] t = "General Information" -> GeneralInformationFields
      [] t = "Licensing Approvals" -> LicensingApprovalsFields
      [] t = "R & A" -> RAndAFields
      [] t = "Registration Information" -> RegistrationInformationFields

\* Every leaf defaults to "" except one, which the template sets to "No".
TemplateDefault(f) == IF f = PassThrough THEN "No" ELSE ""

concord_template ==
    Dict([t \in TableNames |->
            Dict([f \in TableFields(t) |-> Str(TemplateDefault(f))])])

(***************************************************************************)
(* update_extracted_value (post_processing.py:55-82).  The four steps of   *)
(* the function, each taking and returning the heap; the document maps     *)
(* names to addresses, so an assignment of one field object to another key *)
(* makes both keys name one cell.                                          *)
(***************************************************************************)
HasExtractedValue(jd, h, name) ==
    name \in DOMAIN jd /\ EV \in DOMAIN h[jd[name]]

SetExtractedValue(h, a, v) == [h EXCEPT ![a] = [@ EXCEPT ![EV] = v]]

\* Mutant of lines 60-63: a value missing from the mapping falls back to "Other".
NormalizeChoiceOfLaw_FallbackOther(jd, h) ==
    IF HasExtractedValue(jd, h, CoL)
    THEN SetExtractedValue(h, jd[CoL],
            Get(choice_of_law_mapping, h[jd[CoL]][EV], "Other"))
    ELSE h

\* lines 60-63
NormalizeChoiceOfLaw(jd, h) ==
    IF HasExtractedValue(jd, h, CoL)
    THEN LET original_value == h[jd[CoL]][EV]
         IN SetExtractedValue(h, jd[CoL],
                Get(choice_of_law_mapping, original_value, original_value))
    ELSE h

\* lines 66-69
NormalizeCurrency(jd, h) ==
    IF HasExtractedValue(jd, h, CUR)
    THEN LET original_value == h[jd[CUR]][EV]
         IN SetExtractedValue(h, jd[CUR],
                Get(currency_mapping, original_value, original_value))
    ELSE h

\* lines 72-74
CoercePRO(jd, h) ==
    IF HasExtractedValue(jd, h, PRO)
    THEN LET original_value == h[jd[PRO]][EV]
         IN SetExtractedValue(h, jd[PRO],
                IF original_value \in pro_accepted_list
                THEN original_value ELSE "Other")
    ELSE h

\* lines 76-77: the subscripts raise KeyError when the key is missing; the
\* assignment binds the second key to the same object.
SetOtherPRO(jd, h) ==
    IF ~HasExtractedValue(jd, h, PRO)
    THEN [json_data |-> jd, heap |-> h, raised |-> "KeyError"]
    ELSE IF h[jd[PRO]][EV] = "Other"
    THEN [json_data |-> Put(jd, OtherPRO, jd[PRO]), heap |-> h, raised |-> "None"]
    ELSE [json_data |-> jd, heap |-> h, raised |-> "None"]

update_extracted_value(jd, h) ==
    SetOtherPRO(jd, CoercePRO(jd, NormalizeCurrency(jd, NormalizeChoiceOfLaw(jd, h))))

(***************************************************************************)
(* populate_template (post_processing.py:85-106).  deepcopy(source[key])   *)
(* is a new cell; its address is the path of the leaf it is stored at.     *)
(***************************************************************************)
CopyAddr(path) == <<"deepcopy">> \o path

\* Mutant: the leaf is bound to the source object itself (no deepcopy).
RECURSIVE populate_template_NoCopy(_, _, _)
populate_template_NoCopy(template, source, path) ==
    IF template.kind = "dict"
    THEN Dict([key \in DOMAIN template.items |->
                LET value == template.items[key]
                IN IF value = Str("") /\ key \in DOMAIN source
                   THEN Ref(source[key])
                   ELSE populate_template_NoCopy(value, source, path \o <<key>>)])
    ELSE template

\* Mutant: an unpopulated leaf is reset to "" instead of returned unchanged.
RECURSIVE populate_template_BlankLeaf(_, _, _)
populate_template_BlankLeaf(template, source, path) ==
    IF template.kind = "dict"
    THEN Dict([key \in DOMAIN template.items |->
                LET value == template.items[key]
                IN IF value = Str("") /\ key \in DOMAIN source
                   THEN Ref(CopyAddr(path \o <<key>>))
                   ELSE populate_template_BlankLeaf(value, source, path \o <<key>>)])
    ELSE Str("")

RECURSIVE populate_template(_, _, _)
populate_template(template, source, path) ==
    IF template.kind = "dict"
    THEN Dict([key \in DOMAIN template.items |->
                LET value == template.items[key]
                IN IF value = Str("") /\ key \in DOMAIN source
                   THEN Ref(CopyAddr(path \o <<key>>))
                   ELSE populate_template(value, source, path \o <<key>>)])
    ELSE template

\* The addresses of the copies a populated document holds.
RECURSIVE CopiesOf(_)
CopiesOf(node) ==
    CASE node.kind = "ref" -> {node.addr}
      [] node.kind = "dict" ->
            UNION {CopiesOf(node.items[k]) : k \in DOMAIN node.items}
      [] OTHER -> {}

\* The heap after the deepcopy calls: each copy holds the contents of the
\* source object, which is the one named by the last key of its path.
HeapWithCopies(h, source, populated) ==
    LET new == CopiesOf(populated)
    IN [a \in DOMAIN h \cup new |->
            IF a \in new THEN h[source[a[Len(a)]]] ELSE h[a]]

(***************************************************************************)
(* Flat documents as json.loads returns them: every field its own object.  *)
(***************************************************************************)
Pages == 1..MaxPage

Absent == [k \in {"absent"} |-> TRUE]

WellFormed(values) ==
    {Field(v, p) : v \in values, p \in Pages} \cup {FieldNoPos("N/A")}

FlatFields == {CoL, CUR, PRO, OtherPRO, "Account Name", PassThrough, "Writer Party"}

InputObjects(name) ==
    CASE name = CoL -> WellFormed({"California", "Ruritania", "Other"}) \cup {EmptyDict}
      [] name = CUR -> WellFormed({"USD", "XYZ"})
      [] name = PRO -> WellFormed({"BMI", "Kobalt", "Other"}) \cup {EmptyDict}
      [] name = OtherPRO -> {FieldNoPos("N/A")}
      [] name = "Account Name" -> WellFormed({"Acme"})
      [] name = PassThrough -> {Field("Yes", 1)}
      [] name = "Writer Party" -> {Field("Jo", 1)}

LoadAddr(name) == <<"loads", name>>

Options(name) == InputObjects(name) \cup {Absent}

InitDoc ==
    \E o1 \in Options(CoL), o2 \in Options(CUR), o3 \in Options(PRO),
       o4 \in Options(OtherPRO), o5 \in Options("Account Name"),
       o6 \in Options(PassThrough), o7 \in Options("Writer Party") :
        LET choice == [n \in FlatFields |->
                         CASE n = CoL -> o1
                           [] n = CUR -> o2
                           [] n = PRO -> o3
                           [] n = OtherPRO -> o4
                           [] n = "Account Name" -> o5
                           [] n = PassThrough -> o6
                           [] n = "Writer Party" -> o7]
            present == {n \in FlatFields : choice[n] # Absent}
        IN /\ json_data = [n \in present |-> LoadAddr(n)]
           /\ heap = [a \in {LoadAddr(n) : n \in present} |-> choice[a[2]]]
           /\ parsed = [n \in present |-> choice[n]]
           /\ response_data = NoDoc
           /\ calls = <<>>
           /\ raised = "None"
           /\ IdleText
           /\ IdleFlat
           /\ IdleCrm
    /\ IdleApp

(***************************************************************************)
(* Actions on the document.                                                *)
(***************************************************************************)
UpdateExtractedValue ==
    /\ calls = <<>>
    /\ LET r == update_extracted_value(json_data, heap)
       IN /\ json_data' = r.json_data
          /\ heap' = r.heap
          /\ raised' = r.raised
    /\ calls' = Append(calls, "update_extracted_value")
    /\ UNCHANGED <<response_data, parsed, textVars, flatVars, crmVars, appVars>>

PopulateTemplate ==
    /\ response_data = NoDoc
    /\ raised = "None"
    /\ LET populated == populate_template(concord_template, json_data, <<>>)
       IN /\ response_data' = populated
          /\ heap' = HeapWithCopies(heap, json_data, populated)
    /\ calls' = Append(calls, "populate_template")
    /\ UNCHANGED <<json_data, raised, parsed, textVars, flatVars, crmVars, appVars>>

NextDoc == UpdateExtractedValue \/ PopulateTemplate

SpecDoc == InitDoc /\ [][NextDoc]_vars

(***************************************************************************)
(* Properties of normalization and templating (checked under SpecDoc).     *)
(***************************************************************************)
Range(f) == {f[x] : x \in DOMAIN f}

Normalized == calls # <<>> /\ calls[1] = "update_extracted_value"

Returned == raised = "None"

Templated == response_data # NoDoc

\* An Extracted Field of the data model: Position present iff the value is not "N/A".
PositionIffNotNA(obj) ==
    /\ EV \in DOMAIN obj
    /\ (POS \in DOMAIN obj) <=> (obj[EV] # "N/A")

UnclassifiedPRO ==
    /\ PRO \in DOMAIN parsed
    /\ EV \in DOMAIN parsed[PRO]
    /\ parsed[PRO][EV] \notin pro_accepted_list

\* C1: when the parsed 'Performing Rights Organization' value is not in the
\* accepted list, after update_extracted_value the PRO value is "Other" and
\* 'Other Performing Rights Organization' is an independent copy of the PRO
\* field as parsed: the original text, the original Position, its own object.
C1_OtherPROKeepsOriginal ==
    (Normalized /\ Returned /\ UnclassifiedPRO) =>
        /\ heap[json_data[PRO]][EV] = "Other"
        /\ OtherPRO \in DOMAIN json_data
        /\ heap[json_data[OtherPRO]] = parsed[PRO]
        /\ json_data[OtherPRO] # json_data[PRO]

\* C2: if every parsed field has a Position iff its value is not "N/A", then
\* so has every field of the document after update_extracted_value and every
\* populated leaf of the templated document built from it.
C2_PositionIffNotNAPreserved ==
    (Normalized /\ Returned /\ \A n \in DOMAIN parsed : PositionIffNotNA(parsed[n])) =>
        /\ \A n \in DOMAIN json_data : PositionIffNotNA(heap[json_data[n]])
        /\ Templated => \A a \in CopiesOf(response_data) : PositionIffNotNA(heap[a])

\* C29: update_extracted_value returns for every flat document whose fields
\* are mappings; for a document without 'Performing Rights Organization' it
\* returns the document with the same keys and only the Choice of Law and
\* Currency values replaced.
C29_ReturnsWithoutPRO ==
    Normalized =>
        /\ Returned
        /\ PRO \notin DOMAIN parsed =>
              /\ DOMAIN json_data = DOMAIN parsed
              /\ \A n \in DOMAIN parsed \ {CoL, CUR} : heap[json_data[n]] = parsed[n]
              /\ \A n \in DOMAIN parsed \cap {CoL, CUR} :
                    DOMAIN heap[json_data[n]] = DOMAIN parsed[n]

Leaf(t, f) == response_data.items[t].items[f]

SameKeysAsTemplate ==
    /\ response_data.kind = "dict"
    /\ DOMAIN response_data.items = DOMAIN concord_template.items
    /\ \A t \in DOMAIN concord_template.items :
        /\ response_data.items[t].kind = "dict"
        /\ DOMAIN response_data.items[t].items = DOMAIN concord_template.items[t].items

\* The leaf is a new object equal to the source field and shared with nothing.
IsDeepCopy(t, f) ==
    /\ Leaf(t, f).kind = "ref"
    /\ Leaf(t, f).addr \notin Range(json_data)
    /\ heap[Leaf(t, f).addr] = heap[json_data[f]]
    /\ \A t2 \in TableNames : \A f2 \in TableFields(t2) :
          (<<t2, f2>> # <<t, f>> /\ Leaf(t2, f2).kind = "ref")
              => Leaf(t2, f2).addr # Leaf(t, f).addr

\* C3 (as stated): the populated document has the template's keys; every leaf
\* named by a top-level key of the flat document is a deep copy of that field
\* and every other leaf is the empty string.
C3_EveryNamedLeafCopied ==
    Templated =>
        /\ SameKeysAsTemplate
        /\ \A t \in TableNames : \A f \in TableFields(t) :
              IF f \in DOMAIN json_data
              THEN IsDeepCopy(t, f)
              ELSE Leaf(t, f) = Str("")

\* C3 (amended): the populated document has the template's keys; every leaf
\* whose template default is "" and whose name is a top-level key of the flat
\* document is a deep copy of that field; every other leaf keeps its template
\* default ("" or, for the pass-through field, "No").
C3_EmptyDefaultLeafCopied ==
    Templated =>
        /\ SameKeysAsTemplate
        /\ \A t \in TableNames : \A f \in TableFields(t) :
              IF concord_template.items[t].items[f] = Str("") /\ f \in DOMAIN json_data
              THEN IsDeepCopy(t, f)
              ELSE Leaf(t, f) = concord_template.items[t].items[f]

C3_Witness ==
    /\ Templated
    /\ {"Account Name", "Writer Party", PassThrough, CUR} \subseteq DOMAIN json_data
    /\ Leaf("Account", "Account Name").kind = "ref"
    /\ Leaf("Details", "Agreement Name") = Str("")

EmptySource == calls = <<"populate_template">> /\ DOMAIN json_data = {}

\* C4 (as stated): with an empty flat document populate_template returns the
\* template, and every leaf of the result is the empty string.
C4_EmptySourceAllLeavesEmpty ==
    EmptySource =>
        /\ response_data = concord_template
        /\ \A t \in TableNames : \A f \in TableFields(t) : Leaf(t, f) = Str("")

\* C4 (amended): with an empty flat document populate_template returns the
\* template, and every leaf of the result is the empty string except
\* '[Prior] Pass-Through Income Included in Concord', which is "No".
C4_EmptySourceReturnsTemplate ==
    EmptySource =>
        /\ response_data = concord_template
        /\ \A t \in TableNames : \A f \in TableFields(t) :
              Leaf(t, f) = IF f = PassThrough THEN Str("No") ELSE Str("")

C4_Witness == EmptySource /\ Templated

Substituted(mapping, v) == IF v \in DOMAIN mapping THEN mapping[v] ELSE v

\* C8: update_extracted_value replaces the 'Choice of Law' value by its coded
\* label when it is a key of the choice-of-law mapping and leaves it unchanged
\* otherwise ("California" -> "CA - California"; "Ruritania", "Other" stay);
\* likewise 'Currency' with the currency mapping; Positions and all fields
\* other than these (and the PRO pair, which has its own rule) are unchanged.
C8_MappingSubstitution ==
    Normalized =>
        /\ \A n \in {CoL, CUR} :
              (n \in DOMAIN parsed /\ EV \in DOMAIN parsed[n]) =>
                  heap[json_data[n]] =
                      [parsed[n] EXCEPT ![EV] =
                          Substituted(IF n = CoL THEN choice_of_law_mapping
                                      ELSE currency_mapping, @)]
        /\ (CoL \in DOMAIN parsed /\ EV \in DOMAIN parsed[CoL]) =>
              /\ parsed[CoL][EV] = "California" => heap[json_data[CoL]][EV] = "CA - California"
              /\ parsed[CoL][EV] \in {"Ruritania", "Other", "N/A"} =>
                    heap[json_data[CoL]][EV] = parsed[CoL][EV]
        /\ (CUR \in DOMAIN parsed /\ parsed[CUR][EV] = "USD") =>
              heap[json_data[CUR]][EV] = "USD - U.S. Dollar"
        /\ \A n \in DOMAIN parsed \ {CoL, CUR, PRO, OtherPRO} :
              heap[json_data[n]] = parsed[n]
        /\ DOMAIN parsed \ {OtherPRO} = DOMAIN json_data \ {OtherPRO}

C8_Witness ==
    /\ Normalized
    /\ {CoL, CUR, "Account Name"} \subseteq DOMAIN parsed
    /\ parsed[CoL] = Field("California", 1)
    /\ parsed[CUR] = Field("XYZ", 1)
    /\ heap[json_data[CoL]][EV] = "CA - California"

(***************************************************************************)
(* JSON text is a sequence of one-character strings.  A JSON value is an   *)
(* object (its members in insertion order), an array, a string or a number *)
(* (kept as the digits json.dumps prints for it).                          *)
(***************************************************************************)
JObject(members) == [kind |-> "object", members |-> members]

JArray(elements) == [kind |-> "array", elements |-> elements]

JString(chars) == [kind |-> "string", chars |-> chars]

JNumber(digits) == [kind |-> "number", digits |-> digits]

Member(key, value) == [key |-> key, value |-> value]

RECURSIVE Join(_, _)
Join(sep, parts) ==
    IF parts = <<>> THEN <<>>
    ELSE IF Len(parts) = 1 THEN parts[1]
    ELSE parts[1] \o sep \o Join(sep, Tail(parts))

(***************************************************************************)
(* json.dumps(obj, indent=2) (app.py:471): members and elements one per    *)
(* line, two spaces per nesting level, "," and ": " separators, strings    *)
(* quoted with quote, backslash and newline escaped.                       *)
(***************************************************************************)
RECURSIVE Spaces(_)
Spaces(n) == IF n = 0 THEN <<>> ELSE <<" ">> \o Spaces(n - 1)

NewlineIndent(level) == <<"\n">> \o Spaces(2 * level)

RECURSIVE EscapeString(_)
EscapeString(chars) ==
    IF chars = <<>> THEN <<>>
    ELSE (CASE Head(chars) = "\"" -> <<"\\", "\"">>
            [] Head(chars) = "\\" -> <<"\\", "\\">>
            [] Head(chars) = "\n" -> <<"\\", "n">>
            [] OTHER -> <<Head(chars)>>) \o EscapeString(Tail(chars))

Quoted(chars) == <<"\"">> \o EscapeString(chars) \o <<"\"">>

RECURSIVE json_dumps(_, _)
json_dumps(obj, level) ==
    CASE obj.kind = "string" -> Quoted(obj.chars)
      [] obj.kind = "number" -> obj.digits
      [] obj.kind = "array" ->
            IF obj.elements = <<>> THEN <<"[", "]">>
            ELSE <<"[">> \o NewlineIndent(level + 1)
                 \o Join(<<",">> \o NewlineIndent(level + 1),
                         [i \in DOMAIN obj.elements |->
                             json_dumps(obj.elements[i], level + 1)])
                 \o NewlineIndent(level) \o <<"]">>
      [] obj.kind = "object" ->
            IF obj.members = <<>> THEN <<"{", "}">>
            ELSE <<"{">> \o NewlineIndent(level + 1)
                 \o Join(<<",">> \o NewlineIndent(level + 1),
                         [i \in DOMAIN obj.members |->
                             Quoted(obj.members[i].key) \o <<":", " ">>
                             \o json_dumps(obj.members[i].value, level + 1)])
                 \o NewlineIndent(level) \o <<"}">>

(***************************************************************************)
(* compact_coordinates (utils.py:127-131):                                 *)
(*   re.sub(r'\[\s+([\d\.\,\s\-eE]+?)\s+\]',                               *)
(*          lambda m: '[' + ' '.join(m.group(1).split()) + ']', json_data) *)
(* The character class does not contain "]", so a match that starts at a   *)
(* "[" ends at the first "]" after it, and exists iff everything between   *)
(* is in the class, is at least three characters, and starts and ends with *)
(* whitespace.  Matches are taken left to right and do not overlap.        *)
(***************************************************************************)
Whitespace == {" ", "\n", "\t", "\r", "\f"}

Digits == {"0", "1", "2", "3", "4", "5", "6", "7", "8", "9"}

NumericClass == Digits \cup {".", ",", "-", "e", "E"} \cup Whitespace

\* The least element of a non-empty set of indexes.
Min(S) == CHOOSE x \in S : \A y \in S : x <= y

\* Index of the first "]" at or after i, 0 when there is none.
FirstClose(s, i) ==
    LET closes == {j \in i..Len(s) : s[j] = "]"}
    IN IF closes = {} THEN 0 ELSE Min(closes)

\* Index of the "]" that ends the match starting at i, 0 when none starts there.
MatchEnd(s, i) ==
    IF s[i] # "[" THEN 0
    ELSE LET j == FirstClose(s, i + 1)
         IN IF j = 0 THEN 0
            ELSE LET inner == SubSeq(s, i + 1, j - 1)
                 IN IF /\ Len(inner) >= 3
                       /\ inner[1] \in Whitespace
                       /\ inner[Len(inner)] \in Whitespace
                       /\ \A k \in DOMAIN inner : inner[k] \in NumericClass
                    THEN j ELSE 0

\* Length of the run of non-whitespace characters at the head of s.
RECURSIVE WordLen(_)
WordLen(s) ==
    IF s = <<>> \/ Head(s) \in Whitespace THEN 0 ELSE 1 + WordLen(Tail(s))

\* str.split(): the maximal runs of non-whitespace characters.
RECURSIVE Split(_)
Split(s) ==
    IF s = <<>> THEN <<>>
    ELSE IF Head(s) \in Whitespace THEN Split(Tail(s))
    ELSE <<SubSeq(s, 1, WordLen(s))>> \o Split(SubSeq(s, WordLen(s) + 1, Len(s)))

\* Mutant: the words are joined without the separating space.
Replacement_NoSeparator(inner) == <<"[">> \o Join(<<>>, Split(inner)) \o <<"]">>

\* The replacement lambda: '[' + ' '.join(m.group(1).split()) + ']'.
Replacement(inner) == <<"[">> \o Join(<<" ">>, Split(inner)) \o <<"]">>

\* re.sub from index i on: the text up to the next match is kept, the match
\* is replaced, and the scan resumes after its "]".
RECURSIVE Substitute(_, _)
Substitute(s, i) ==
    LET starts == {k \in i..Len(s) : MatchEnd(s, k) # 0}
    IN IF starts = {} THEN SubSeq(s, i, Len(s))
       ELSE LET k == Min(starts)
                j == MatchEnd(s, k)
            IN SubSeq(s, i, k - 1) \o Replacement(SubSeq(s, k + 1, j - 1))
               \o Substitute(s, j + 1)

compact_coordinates(text) == Substitute(text, 1)

(***************************************************************************)
(* json.loads (post_processing.py:177, reading the text that               *)
(* compact_coordinates returned): a recursive-descent parser for objects,  *)
(* arrays, strings and numbers, with whitespace allowed between tokens.    *)
(***************************************************************************)
NumberChars == Digits \cup {".", "-", "+", "e", "E"}

\* Index of the first non-whitespace character at or after i, Len(s) + 1 when none.
SkipSpace(s, i) ==
    LET rest == {k \in i..Len(s) : s[k] \notin Whitespace}
    IN IF rest = {} THEN Len(s) + 1 ELSE Min(rest)

\* Index of the closing quote of the string whose body starts at i, 0 when unterminated.
RECURSIVE StringEnd(_, _)
StringEnd(s, i) ==
    IF i > Len(s) THEN 0
    ELSE IF s[i] = "\"" THEN i
    ELSE IF s[i] = "\\" THEN StringEnd(s, i + 2)
    ELSE StringEnd(s, i + 1)

RECURSIVE Unescape(_)
Unescape(chars) ==
    IF chars = <<>> THEN <<>>
    ELSE IF Head(chars) = "\\" /\ Len(chars) >= 2
    THEN <<IF chars[2] = "n" THEN "\n" ELSE chars[2]>> \o Unescape(Tail(Tail(chars)))
    ELSE <<Head(chars)>> \o Unescape(Tail(chars))

\* Index after the run of number characters that starts at i.
NumberEnd(s, i) ==
    LET stops == {k \in i..Len(s) : s[k] \notin NumberChars}
    IN IF stops = {} THEN Len(s) + 1 ELSE Min(stops)

Failure == [ok |-> FALSE]

Parsed(value, next) == [ok |-> TRUE, value |-> value, next |-> next]

\* The character at the first non-whitespace position at or after i is c.
At(s, i, c) == SkipSpace(s, i) <= Len(s) /\ s[SkipSpace(s, i)] = c

RECURSIVE ParseValue(_, _)
RECURSIVE ParseElements(_, _, _)
RECURSIVE ParseMembers(_, _, _)

\* A quoted string at the first non-whitespace position at or after i.
ParseString(s, i) ==
    IF ~At(s, i, "\"") THEN Failure
    ELSE LET j == StringEnd(s, SkipSpace(s, i) + 1)
         IN IF j = 0 THEN Failure
            ELSE Parsed(JString(Unescape(SubSeq(s, SkipSpace(s, i) + 1, j - 1))), j + 1)

\* The value at the first non-whitespace position at or after i.
ParseValue(s, i) ==
    LET k == SkipSpace(s, i)
    IN IF k > Len(s) THEN Failure
       ELSE CASE s[k] = "\"" -> ParseString(s, k)
              [] s[k] \in NumberChars ->
                    Parsed(JNumber(SubSeq(s, k, NumberEnd(s, k) - 1)), NumberEnd(s, k))
              [] s[k] = "[" ->
                    IF At(s, k + 1, "]") THEN Parsed(JArray(<<>>), SkipSpace(s, k + 1) + 1)
                    ELSE ParseElements(s, k + 1, <<>>)
              [] s[k] = "{" ->
                    IF At(s, k + 1, "}") THEN Parsed(JObject(<<>>), SkipSpace(s, k + 1) + 1)
                    ELSE ParseMembers(s, k + 1, <<>>)
              [] OTHER -> Failure

\* value ("," value)* "]" from index i, after the elements in acc.
ParseElements(s, i, acc) ==
    LET v == ParseValue(s, i)
    IN IF ~v.ok THEN Failure
       ELSE IF At(s, v.next, ",")
       THEN ParseElements(s, SkipSpace(s, v.next) + 1, Append(acc, v.value))
       ELSE IF At(s, v.next, "]")
       THEN Parsed(JArray(Append(acc, v.value)), SkipSpace(s, v.next) + 1)
       ELSE Failure

\* string ":" value ("," string ":" value)* "}" from index i, after the members in acc.
ParseMembers(s, i, acc) ==
    LET key == ParseString(s, i)
    IN IF ~key.ok \/ ~At(s, key.next, ":") THEN Failure
       ELSE LET v == ParseValue(s, SkipSpace(s, key.next) + 1)
            IN IF ~v.ok THEN Failure
               ELSE IF At(s, v.next, ",")
               THEN ParseMembers(s, SkipSpace(s, v.next) + 1,
                                 Append(acc, Member(key.value.chars, v.value)))
               ELSE IF At(s, v.next, "}")
               THEN Parsed(JObject(Append(acc, Member(key.value.chars, v.value))),
                           SkipSpace(s, v.next) + 1)
               ELSE Failure

\* json.loads(text): the value, or a failure when the text is not one JSON value.
json_loads(text) ==
    LET v == ParseValue(text, 1)
    IN IF v.ok /\ SkipSpace(text, v.next) = Len(text) + 1
       THEN [ok |-> TRUE, value |-> v.value]
       ELSE Failure

(***************************************************************************)
(* Documents given to json.dumps: one table of a templated contract        *)
(* document with an unpopulated leaf and a populated field, and arrays.    *)
(***************************************************************************)
StringAlphabet == {"[", "]", " ", "1"}

RECURSIVE StringsUpTo(_)
StringsUpTo(n) ==
    IF n = 0 THEN {<<>>}
    ELSE LET shorter == StringsUpTo(n - 1)
         IN shorter \cup {Append(s, c) : s \in {x \in shorter : Len(x) = n - 1},
                                          c \in StringAlphabet}

Point(x, y) == JArray(<<JNumber(x), JNumber(y)>>)

PositionValue ==
    JObject(<<Member(<<"P", "a", "g", "e">>, JNumber(<<"1">>)),
              Member(<<"C", "o", "o", "r", "d", "i", "n", "a", "t", "e", "s">>,
                     JArray(<<Point(<<"0", ".", "1", "1", "4">>, <<"0", ".", "1", "4", "7">>), Point(<<"0", ".", "9", "2", "4">>, <<"0", ".", "1", "4", "7">>),
                              Point(<<"0", ".", "9", "2", "4">>, <<"0", ".", "9", "9", "3">>), Point(<<"0", ".", "1", "1", "4">>, <<"0", ".", "9", "9", "3">>)>>))>>)

ExtractedField(value, withPosition) ==
    JObject(<<Member(<<"E", "x", "t", "r", "a", "c", "t", "e", "d", " ", "V", "a", "l", "u", "e">>, value)>>
            \o IF withPosition THEN <<Member(<<"P", "o", "s", "i", "t", "i", "o", "n">>, PositionValue)>> ELSE <<>>)

TemplatedDocument(field) ==
    JObject(<<Member(<<"D", "e", "t", "a", "i", "l", "s">>,
                     JObject(<<Member(<<"C", "o", "n", "c", "o", "r", "d", " ", "P", "a", "r", "t", "y">>, JString(<<>>)),
                               Member(<<"A", "g", "r", "e", "e", "m", "e", "n", "t", " ", "N", "a", "m", "e">>, field)>>))>>)

NumberSamples == {<<"0", ".", "1">>, <<"0", ".", "2">>, <<"-", "3", "e", "5">>}

RECURSIVE NumericArrays(_)
NumericArrays(n) ==
    IF n = 0 THEN {<<>>}
    ELSE LET shorter == NumericArrays(n - 1)
         IN shorter \cup {Append(a, JNumber(d)) : a \in {x \in shorter : Len(x) = n - 1},
                                                   d \in NumberSamples}

ObjectSample == JObject(<<Member(<<"a">>, JNumber(<<"1">>))>>)

\* Values with a letter, a quote, a backslash and a newline among them.
StringSamples ==
    { <<"[", " ", "a", " ", "]">>, <<"[", " ", "1", "a", " ", "]">>,
      <<"a", "\"", "[", " ", "1", " ", "]">>, <<"\\", "\n", "[", "\n", "1", "\n", "]">> }

TemplatedDocuments ==
    {TemplatedDocument(ExtractedField(JString(s), TRUE)) :
        s \in StringsUpTo(MaxStrLen) \cup StringSamples}
    \cup {TemplatedDocument(ExtractedField(JString(<<"N", "/", "A">>), FALSE))}
    \cup {TemplatedDocument(ExtractedField(JArray(<<JString(s)>>), TRUE)) :
            s \in StringsUpTo(1)}

ArrayDocuments ==
    {JArray(a) : a \in NumericArrays(MaxArrayLen)}
    \cup {JArray(<<ObjectSample>>), JArray(<<JString(<<"a">>)>>),
          JArray(<<ObjectSample, JArray(<<JNumber(<<"1">>)>>)>>)}

InitText ==
    /\ document \in TemplatedDocuments \cup ArrayDocuments
    /\ json_text = <<>>
    /\ dumped = <<>>
    /\ stage = "document"
    /\ IdleDoc
    /\ IdleFlat
    /\ IdleCrm
    /\ IdleApp

\* app.py:471
JsonDumps ==
    /\ stage = "document"
    /\ json_text' = json_dumps(document, 0)
    /\ dumped' = json_dumps(document, 0)
    /\ stage' = "dumped"
    /\ UNCHANGED <<document, docVars, flatVars, crmVars, appVars>>

\* app.py:472
CompactCoordinates ==
    /\ stage = "dumped"
    /\ json_text' = compact_coordinates(json_text)
    /\ stage' = "compacted"
    /\ UNCHANGED <<document, dumped, docVars, flatVars, crmVars, appVars>>

NextText == JsonDumps \/ CompactCoordinates

SpecText == InitText /\ [][NextText]_vars

(***************************************************************************)
(* Properties of coordinate compaction (checked under SpecText).           *)
(***************************************************************************)
Compacted == stage = "compacted"

\* "[\n  0.1,\n  0.2\n]"
PrettyPair == <<"[", "\n", " ", " ", "0", ".", "1", ",", "\n", " ", " ", "0", ".", "2", "\n", "]">>

IsNumericArray(v) ==
    /\ v.kind = "array"
    /\ v.elements # <<>>
    /\ \A i \in DOMAIN v.elements : v.elements[i].kind = "number"

HoldsNoNumber(v) ==
    /\ v.kind = "array"
    /\ v.elements # <<>>
    /\ \A i \in DOMAIN v.elements : v.elements[i].kind \in {"object", "string"}
    /\ \A i \in DOMAIN v.elements :
          v.elements[i].kind = "object" =>
              \A m \in DOMAIN v.elements[i].members :
                  v.elements[i].members[m].value.kind # "array"

\* C5 (as stated): the pretty-printed pair "[\n  0.1,\n  0.2\n]" is compacted
\* to "[0.1 0.2]", and an array that holds an object is returned unmodified.
C5_PairCompactedWithoutComma ==
    Compacted =>
        /\ dumped = PrettyPair => json_text = <<"[", "0", ".", "1", " ", "0", ".", "2", "]">>
        /\ HoldsNoNumber(document) => json_text = dumped

\* C5 (amended): a pretty-printed numeric array is rewritten onto one line,
\* its elements separated by a comma and a single space: the pair
\* "[\n  0.1,\n  0.2\n]" becomes "[0.1, 0.2]"; an array that holds an object
\* or a string is returned unmodified.
C5_NumericArrayOnOneLine ==
    Compacted =>
        /\ dumped = PrettyPair =>
              json_text = <<"[", "0", ".", "1", ",", " ", "0", ".", "2", "]">>
        /\ IsNumericArray(document) =>
              json_text = <<"[">>
                          \o Join(<<",", " ">>,
                                  [i \in DOMAIN document.elements |->
                                      document.elements[i].digits])
                          \o <<"]">>
        /\ HoldsNoNumber(document) => json_text = dumped

C5_Witness ==
    /\ Compacted
    /\ dumped = PrettyPair
    /\ json_text = <<"[", "0", ".", "1", ",", " ", "0", ".", "2", "]">>

\* json.loads of the text json.dumps returned gives the document back.
DumpedTextParsesBack ==
    stage = "dumped" => json_loads(json_text) = [ok |-> TRUE, value |-> document]

\* C6: the compacted text is valid JSON that parses back to the document it
\* was dumped from: compaction changes nothing inside string values.
C6_CompactedTextParsesBack ==
    Compacted => json_loads(json_text) = [ok |-> TRUE, value |-> document]

(***************************************************************************)
(* flatten_extracted_data (post_processing.py:109-153).  Values carry      *)
(* their Python type: str, list, number, dict.  json.dumps(field_data) of  *)
(* a dict without "Extracted Value" is a str that is the JSON text of it.  *)
(***************************************************************************)
PStr(s) == [type |-> "str", s |-> s]

PList(items) == [type |-> "list", items |-> items]

PNum(n) == [type |-> "number", n |-> n]

PDict(items) == [type |-> "dict", items |-> items]

PJsonText(value) == [type |-> "str", json |-> value]

\* line 121
multi_select_fields == {"Territory", "Other Territory", "Excluded Territories"}

\* line 130
HasValue(field_data) == field_data.type = "dict" /\ EV \in DOMAIN field_data.items

\* lines 134-142: a multi-select field that is assigned no value.
Skipped(field_name, field_data) ==
    /\ HasValue(field_data)
    /\ field_name \in multi_select_fields
    /\ LET extracted_value == field_data.items[EV]
       IN \/ extracted_value.type = "str" /\ extracted_value.s \in {"", "N/A"}
          \/ extracted_value.type \notin {"str", "list"}

\* lines 130-151: the value stored under field_name.
FlatValue(field_name, field_data) ==
    IF HasValue(field_data)
    THEN LET extracted_value == field_data.items[EV]
         IN IF field_name \in multi_select_fields /\ extracted_value.type = "str"
            THEN PList(<<extracted_value.s>>)
            ELSE extracted_value
    ELSE IF field_data.type = "dict" THEN PJsonText(field_data)
    ELSE field_data

\* Mutant: "N/A" is wrapped like any other string instead of skipped.
flatten_extracted_data_KeepNA(table) ==
    [field_name \in {n \in DOMAIN table :
                        ~(Skipped(n, table[n]) /\ table[n].items[EV] # PStr("N/A"))} |->
        FlatValue(field_name, table[field_name])]

flatten_extracted_data(table) ==
    [field_name \in {n \in DOMAIN table : ~Skipped(n, table[n])} |->
        FlatValue(field_name, table[field_name])]

(***************************************************************************)
(* Tables given to flatten_extracted_data.                                 *)
(***************************************************************************)
ValueField(value) == PDict([k \in {EV, POS} |-> IF k = EV THEN value ELSE PNum(1)])

ValueFieldNoPos(value) == PDict([k \in {EV} |-> value])

RECURSIVE ListsUpTo(_)
ListsUpTo(n) ==
    IF n = 0 THEN {<<>>}
    ELSE LET shorter == ListsUpTo(n - 1)
         IN shorter \cup {Append(l, t) : l \in {x \in shorter : Len(x) = n - 1},
                                          t \in {"USA", "Canada"}}

TerritoryData ==
    {ValueField(PStr(s)) : s \in {"USA", ""}}
    \cup {ValueFieldNoPos(PStr("N/A"))}
    \cup {ValueField(PList(l)) : l \in ListsUpTo(MaxListLen)}
    \cup {ValueField(PNum(3)), PDict([k \in {"Page"} |-> PNum(1)]), PStr("")}

TableData(field_name) ==
    CASE field_name = "Territory" -> TerritoryData \cup {Absent}
      [] field_name = "Other Territory" -> TerritoryData \cup {Absent}
      [] field_name = "Agreement Name" ->
            {ValueField(PStr("Deal")), ValueFieldNoPos(PStr("N/A")),
             ValueField(PList(<<"USA">>)), PDict([k \in {"Page"} |-> PNum(1)]),
             PStr(""), Absent}

FlattenFields == {"Territory", "Other Territory", "Agreement Name"}

InitFlatten ==
    \E d1 \in TableData("Territory"), d2 \in TableData("Other Territory"),
       d3 \in TableData("Agreement Name") :
        LET choice == [n \in FlattenFields |->
                         CASE n = "Territory" -> d1
                           [] n = "Other Territory" -> d2
                           [] n = "Agreement Name" -> d3]
        IN /\ data_dict = [n \in {x \in FlattenFields : choice[x] # Absent} |-> choice[n]]
           /\ flattened = NoDoc
           /\ IdleDoc
           /\ IdleText
           /\ IdleCrm
    /\ IdleApp

FlattenExtractedData ==
    /\ flattened = NoDoc
    /\ flattened' = flatten_extracted_data(data_dict)
    /\ UNCHANGED <<data_dict, docVars, textVars, crmVars, appVars>>

NextFlatten == FlattenExtractedData

SpecFlatten == InitFlatten /\ [][NextFlatten]_vars

(***************************************************************************)
(* Properties of flattening (checked under SpecFlatten).                   *)
(***************************************************************************)
Flattened == flattened # NoDoc

\* The multi-select rule applied to the field value v stored under name n.
MultiSelectRule(n, v) ==
    /\ (v.type = "str" /\ v.s \notin {"", "N/A"}) =>
          n \in DOMAIN flattened /\ flattened[n] = PList(<<v.s>>)
    /\ v.type = "list" => n \in DOMAIN flattened /\ flattened[n] = v
    /\ (v.type = "str" /\ v.s \in {"", "N/A"}) => n \notin DOMAIN flattened

\* Not subject to the rule: the key is kept with its value used directly.
UsedDirectly(n) ==
    /\ n \in DOMAIN flattened
    /\ HasValue(data_dict[n]) => flattened[n] = data_dict[n].items[EV]
    /\ data_dict[n].type # "dict" => flattened[n] = data_dict[n]

\* C7 (as stated): for 'Territory' a non-empty string other than "N/A" becomes
\* a single-element list, a list passes through unchanged and an empty or
\* "N/A" string drops the key; every other key is unaffected by this rule.
C7_OnlyTerritoryIsMultiSelect ==
    Flattened =>
        /\ ("Territory" \in DOMAIN data_dict /\ HasValue(data_dict["Territory"])) =>
              MultiSelectRule("Territory", data_dict["Territory"].items[EV])
        /\ \A n \in DOMAIN data_dict \ {"Territory"} : UsedDirectly(n)

\* C7 (amended): the rule holds for 'Territory' and equally for 'Other
\* Territory' and 'Excluded Territories'; every key other than these three
\* is kept with its value used directly.
C7_MultiSelectFields ==
    Flattened =>
        /\ \A n \in DOMAIN data_dict \cap {"Territory", "Other Territory", "Excluded Territories"} :
              HasValue(data_dict[n]) => MultiSelectRule(n, data_dict[n].items[EV])
        /\ \A n \in DOMAIN data_dict \ {"Territory", "Other Territory", "Excluded Territories"} :
              UsedDirectly(n)

C7_Witness ==
    /\ Flattened
    /\ {"Territory", "Other Territory", "Agreement Name"} \subseteq DOMAIN data_dict
    /\ data_dict["Territory"] = ValueField(PStr("USA"))
    /\ flattened["Territory"] = PList(<<"USA">>)
    /\ data_dict["Other Territory"] = ValueFieldNoPos(PStr("N/A"))
    /\ "Other Territory" \notin DOMAIN flattened
    /\ flattened["Agreement Name"] = PStr("Deal")

(***************************************************************************)
(* upload_to_airtable (post_processing.py:156-306).  Every call of the CRM *)
(* client is a step; table.create and table.update either return or raise. *)
(***************************************************************************)
None == [type |-> "none"]

ReturnValue(value) == [type |-> "returned", value |-> value]

\* Python truth value, as tested by "if agreement_name:".
Truthy(v) ==
    CASE v.type = "none" -> FALSE
      [] v.type = "str" -> v # PStr("")
      [] v.type = "chars" -> v.chars # <<>>
      [] v.type = "list" -> v.items # <<>>
      [] v.type = "number" -> v.n # 0
      [] v.type = "dict" -> DOMAIN v.items # {}

\* dict.pop(key, None)
Pop(d, key) == [k \in DOMAIN d \ {key} |-> d[k]]

\* The order of the template, which json.dumps and json.loads keep.
TableOrder ==
    << "Account", "Contacts", "Details", "Documents", "General Information",
       "Licensing Approvals", "R & A", "Registration Information" >>

\* json_data.items(): the tables of the document, in order.
Items(data) == SelectSeq(TableOrder, LAMBDA t : t \in DOMAIN data)

\* line 199
FirstPassTables == <<"Account", "Contacts">>

\* lines 260-261
ContractTables ==
    {"Registration Information", "General Information", "Licensing Approvals",
     "R & A", "Documents"}

\* Mutant of lines 248-250: the source name is used for every table.
AirtableTableName_Unmapped(table_name) == table_name

\* lines 248-250
AirtableTableName(table_name) ==
    IF table_name = "R & A" THEN "Royalties & Accounting" ELSE table_name

\* lines 188-193
ResolveAgreementName(data) ==
    IF "Details" \in DOMAIN data /\ "Agreement Name" \in DOMAIN data["Details"]
    THEN LET agreement_name_data == data["Details"]["Agreement Name"]
         IN IF HasValue(agreement_name_data)
            THEN agreement_name_data.items[EV]
            ELSE agreement_name_data
    ELSE None

\* lines 213-222
FirstPassRecordData(table_name, table_data) ==
    LET record_data == flatten_extracted_data(table_data)
    IN IF table_name = "Account" THEN Pop(Pop(record_data, "Contacts"), "Details")
       ELSE IF table_name = "Contacts" THEN Pop(record_data, "Full Name")
       ELSE record_data

\* Mutant of lines 257-272: the Details record is not linked to the Account record.
SecondPassRecordData_NoAccountLink(table_name, table_data, name, account_id, contact_id) ==
    LET flat == flatten_extracted_data(table_data)
        with_contract ==
            IF table_name \in ContractTables /\ Truthy(name)
            THEN Put(flat, "Contract", name) ELSE flat
    IN IF table_name = "Registration Information" /\ contact_id # 0
       THEN Put(with_contract, "Writer's Name", PList(<<contact_id>>))
       ELSE with_contract

\* lines 257-272
SecondPassRecordData(table_name, table_data, name, account_id, contact_id) ==
    LET flat == flatten_extracted_data(table_data)
        with_contract ==
            IF table_name \in ContractTables /\ Truthy(name)
            THEN Put(flat, "Contract", name) ELSE flat
        with_party ==
            IF table_name = "Details" /\ account_id # 0
            THEN Put(with_contract, "Contracted Writer Party", PList(<<account_id>>))
            ELSE with_contract
    IN IF table_name = "Registration Information" /\ contact_id # 0
       THEN Put(with_party, "Writer's Name", PList(<<contact_id>>))
       ELSE with_party

Pc(phase, index) == [phase |-> phase, index |-> index]

\* Where the loops go after the iteration at pc.
AfterIteration(position, data) ==
    IF position.phase = "first" /\ position.index < Len(FirstPassTables)
    THEN Pc("first", position.index + 1)
    ELSE IF position.phase = "first"
    THEN (IF Items(data) = <<>> THEN Pc("link", 0) ELSE Pc("second", 1))
    ELSE IF position.phase = "second" /\ position.index < Len(Items(data))
    THEN Pc("second", position.index + 1)
    ELSE Pc("link", 0)

\* Mutant of lines 237-239 and 281-283: the exception of a table leaves the
\* loops and reaches the handler of the whole function.
TableError_Propagates(position, data) == Pc("failed", 0)

\* lines 237-239 and 281-283: except Exception ... continue
TableError(position, data) == AfterIteration(position, data)

CreateCall(table, data, ok, id) ==
    [op |-> "create", table |-> table, data |-> data, ok |-> ok, id |-> id]

UpdateCall(table, id, data, ok) ==
    [op |-> "update", table |-> table, data |-> data, ok |-> ok, id |-> id]

\* The record the CRM holds after create(record_data) in a table.
Record(table, fields) == [table |-> table, fields |-> fields]

\* The fields of a record after update(fields): given fields overwritten, others kept.
Updated(fields, changes) ==
    [k \in DOMAIN fields \cup DOMAIN changes |->
        IF k \in DOMAIN changes THEN changes[k] ELSE fields[k]]

(***************************************************************************)
(* Documents handed to upload_to_airtable: any set of the template's       *)
(* tables, each with a few of its fields.                                  *)
(***************************************************************************)
Fields1(name, value) == [k \in {name} |-> value]

Fields2(name1, value1, name2, value2) ==
    [k \in {name1, name2} |-> IF k = name1 THEN value1 ELSE value2]

TableSamples(t) ==
    CASE t = "Account" ->
            {Fields2("Account Name", ValueField(PStr("Acme")), "Contacts", PStr("Jo"))}
      [] t = "Contacts" ->
            {Fields2("First Name", ValueField(PStr("Jo")), "Full Name", PStr("Jo M"))}
      [] t = "Details" ->
            {Fields2("Agreement Name", ValueField(PStr("Deal")),
                     "Currency", ValueField(PStr("USD - U.S. Dollar"))),
             Fields1("Agreement Name", PStr("")),
             Fields1("Currency", ValueFieldNoPos(PStr("N/A")))}
      [] t = "Documents" -> {Fields1("Schedule A Received", PStr(""))}
      [] t = "General Information" -> {Fields1("Territory", ValueField(PStr("USA")))}
      [] t = "Licensing Approvals" ->
            {Fields1("Licensing Approval Notes", ValueFieldNoPos(PStr("N/A")))}
      [] t = "R & A" -> {Fields1("Royalty Basis", ValueField(PStr("NPS")))}
      [] t = "Registration Information" -> {Fields1(PRO, ValueField(PStr("BMI")))}

InitUpload ==
    /\ airtable_configured \in BOOLEAN
    /\ \E present \in SUBSET TableNames, details \in TableSamples("Details"), valid \in BOOLEAN :
          json_file =
              [valid |-> valid,
               data |-> IF valid
                        THEN [t \in present |->
                                IF t = "Details" THEN details
                                ELSE CHOOSE d \in TableSamples(t) : TRUE]
                        ELSE EmptyDict]
    /\ pc = Pc("call", 0)
    /\ agreement_name = None
    /\ account_record_id = 0
    /\ contact_record_id = 0
    /\ record_id = EmptyDict
    /\ airtable = <<>>
    /\ api_calls = <<>>
    /\ airtable_result = [type |-> "pending"]
    /\ IdleDoc
    /\ IdleText
    /\ IdleFlat
    /\ IdleApp

notCrm == <<docVars, textVars, flatVars, appVars>>

\* lines 171-173
UploadNotConfigured ==
    /\ pc.phase = "call"
    /\ ~airtable_configured
    /\ airtable_result' = ReturnValue(None)
    /\ pc' = Pc("done", 0)
    /\ UNCHANGED <<airtable_configured, json_file, agreement_name, account_record_id,
                   contact_record_id, record_id, airtable, api_calls, notCrm>>

\* line 177 raising: the text is not JSON
UploadLoadsFails ==
    /\ pc.phase = "call"
    /\ airtable_configured
    /\ ~json_file.valid
    /\ pc' = Pc("failed", 0)
    /\ UNCHANGED <<airtable_configured, json_file, agreement_name, account_record_id,
                   contact_record_id, record_id, airtable, api_calls, airtable_result,
                   notCrm>>

\* lines 177-196
UploadBegin ==
    /\ pc.phase = "call"
    /\ airtable_configured
    /\ json_file.valid
    /\ agreement_name' = ResolveAgreementName(json_file.data)
    /\ pc' = Pc("first", 1)
    /\ UNCHANGED <<airtable_configured, json_file, account_record_id, contact_record_id,
                   record_id, airtable, api_calls, airtable_result, notCrm>>

\* lines 200-201
FirstPassSkip ==
    /\ pc.phase = "first"
    /\ FirstPassTables[pc.index] \notin DOMAIN json_file.data
    /\ pc' = AfterIteration(pc, json_file.data)
    /\ UNCHANGED <<airtable_configured, json_file, agreement_name, account_record_id,
                   contact_record_id, record_id, airtable, api_calls, airtable_result,
                   notCrm>>

\* lines 203-239
FirstPassCreate ==
    /\ pc.phase = "first"
    /\ FirstPassTables[pc.index] \in DOMAIN json_file.data
    /\ LET table_name == FirstPassTables[pc.index]
           record_data == FirstPassRecordData(table_name, json_file.data[table_name])
           id == Len(airtable) + 1
       IN \/ /\ airtable' = Append(airtable, Record(table_name, record_data))
             /\ api_calls' = Append(api_calls, CreateCall(table_name, record_data, TRUE, id))
             /\ account_record_id' = IF table_name = "Account" THEN id ELSE account_record_id
             /\ contact_record_id' = IF table_name = "Contacts" THEN id ELSE contact_record_id
             /\ record_id' = Put(record_id, table_name, id)
             /\ pc' = AfterIteration(pc, json_file.data)
          \/ /\ api_calls' = Append(api_calls, CreateCall(table_name, record_data, FALSE, 0))
             /\ pc' = TableError(pc, json_file.data)
             /\ UNCHANGED <<airtable, account_record_id, contact_record_id, record_id>>
    /\ UNCHANGED <<airtable_configured, json_file, agreement_name, airtable_result, notCrm>>

\* lines 244-245
SecondPassSkip ==
    /\ pc.phase = "second"
    /\ Items(json_file.data)[pc.index] \in {"Account", "Contacts"}
    /\ pc' = AfterIteration(pc, json_file.data)
    /\ UNCHANGED <<airtable_configured, json_file, agreement_name, account_record_id,
                   contact_record_id, record_id, airtable, api_calls, airtable_result,
                   notCrm>>

\* lines 247-283
SecondPassCreate ==
    /\ pc.phase = "second"
    /\ Items(json_file.data)[pc.index] \notin {"Account", "Contacts"}
    /\ LET table_name == Items(json_file.data)[pc.index]
           airtable_table_name == AirtableTableName(table_name)
           record_data == SecondPassRecordData(table_name, json_file.data[table_name],
                                               agreement_name, account_record_id,
                                               contact_record_id)
           id == Len(airtable) + 1
       IN \/ /\ airtable' = Append(airtable, Record(airtable_table_name, record_data))
             /\ api_calls' = Append(api_calls,
                                    CreateCall(airtable_table_name, record_data, TRUE, id))
             /\ record_id' = Put(record_id, airtable_table_name, id)
             /\ pc' = AfterIteration(pc, json_file.data)
          \/ /\ api_calls' = Append(api_calls,
                                    CreateCall(airtable_table_name, record_data, FALSE, 0))
             /\ pc' = TableError(pc, json_file.data)
             /\ UNCHANGED <<airtable, record_id>>
    /\ UNCHANGED <<airtable_configured, json_file, agreement_name, account_record_id,
                   contact_record_id, airtable_result, notCrm>>

\* lines 286-292, when both ids are set: the update returns or raises
LinkContacts ==
    /\ pc.phase = "link"
    /\ account_record_id # 0 /\ contact_record_id # 0
    /\ LET changes == Fields1("Account Name", PList(<<account_record_id>>))
       IN \/ /\ airtable' = [airtable EXCEPT ![contact_record_id].fields = Updated(@, changes)]
             /\ api_calls' = Append(api_calls,
                                    UpdateCall("Contacts", contact_record_id, changes, TRUE))
          \/ /\ api_calls' = Append(api_calls,
                                    UpdateCall("Contacts", contact_record_id, changes, FALSE))
             /\ UNCHANGED airtable
    /\ pc' = Pc("return", 0)
    /\ UNCHANGED <<airtable_configured, json_file, agreement_name, account_record_id,
                   contact_record_id, record_id, airtable_result, notCrm>>

\* line 286, when an id is missing
LinkSkipped ==
    /\ pc.phase = "link"
    /\ ~(account_record_id # 0 /\ contact_record_id # 0)
    /\ pc' = Pc("return", 0)
    /\ UNCHANGED <<airtable_configured, json_file, agreement_name, account_record_id,
                   contact_record_id, record_id, airtable, api_calls, airtable_result,
                   notCrm>>

\* lines 298-301
UploadReturn ==
    /\ pc.phase = "return"
    /\ airtable_result' =
          ReturnValue([record_id |-> record_id, agreement_name |-> agreement_name])
    /\ pc' = Pc("done", 0)
    /\ UNCHANGED <<airtable_configured, json_file, agreement_name, account_record_id,
                   contact_record_id, record_id, airtable, api_calls, notCrm>>

\* lines 303-306
UploadFailed ==
    /\ pc.phase = "failed"
    /\ airtable_result' = ReturnValue(None)
    /\ pc' = Pc("done", 0)
    /\ UNCHANGED <<airtable_configured, json_file, agreement_name, account_record_id,
                   contact_record_id, record_id, airtable, api_calls, notCrm>>

NextUpload ==
    \/ UploadNotConfigured
    \/ UploadLoadsFails
    \/ UploadBegin
    \/ FirstPassSkip
    \/ FirstPassCreate
    \/ SecondPassSkip
    \/ SecondPassCreate
    \/ LinkContacts
    \/ LinkSkipped
    \/ UploadReturn
    \/ UploadFailed

SpecUpload == InitUpload /\ [][NextUpload]_vars

(***************************************************************************)
(* Properties of upload_to_airtable, read off the log of CRM calls.        *)
(***************************************************************************)
\* The positions in the log of the create calls made on a CRM table.
Attempted(table) ==
    {i \in DOMAIN api_calls : api_calls[i].op = "create" /\ api_calls[i].table = table}

\* Those of them that returned a record.
Created(table) == {i \in Attempted(table) : api_calls[i].ok}

Creates == {i \in DOMAIN api_calls : api_calls[i].op = "create"}

LinkUpdates(contact_id, account_id) ==
    {u \in DOMAIN api_calls :
        /\ api_calls[u].op = "update"
        /\ api_calls[u].table = "Contacts"
        /\ api_calls[u].id = contact_id
        /\ api_calls[u].data = Fields1("Account Name", PList(<<account_id>>))}

Finished == pc.phase \in {"return", "done"}

\* C9: for a document with Account, Contacts and Details whose Account and
\* Contacts creates succeed, both records are created before the create of
\* Details is called, the payload of that create holds "Contracted Writer
\* Party" = [id of the Account record], and once every create has been made
\* the Contacts record is updated with "Account Name" = [id of the Account
\* record]; when that update returns, the CRM holds the link.
C9_AccountLinkedToDetailsAndContacts ==
    (/\ json_file.valid
     /\ {"Account", "Contacts", "Details"} \subseteq DOMAIN json_file.data)
    => \A a \in Created("Account"), c \in Created("Contacts") :
          LET account_id == api_calls[a].id
              contact_id == api_calls[c].id
          IN /\ airtable[account_id].table = "Account"
             /\ airtable[contact_id].table = "Contacts"
             /\ \A d \in Attempted("Details") :
                   /\ a < d /\ c < d
                   /\ "Contracted Writer Party" \in DOMAIN api_calls[d].data
                   /\ api_calls[d].data["Contracted Writer Party"] = PList(<<account_id>>)
             /\ Finished =>
                   /\ Attempted("Details") # {}
                   /\ \E u \in LinkUpdates(contact_id, account_id) :
                         /\ \A i \in Creates : i < u
                         /\ api_calls[u].ok =>
                               /\ "Account Name" \in DOMAIN airtable[contact_id].fields
                               /\ airtable[contact_id].fields["Account Name"]
                                     = PList(<<account_id>>)

\* The three records were created and the link update returned.
C9_Witness ==
    /\ pc.phase = "done"
    /\ Created("Account") # {} /\ Created("Contacts") # {} /\ Created("Details") # {}
    /\ \E u \in DOMAIN api_calls : api_calls[u].op = "update" /\ api_calls[u].ok
    /\ Truthy(agreement_name)

\* C10: a create that raises for one table is skipped: at the end of the call
\* every table of the document has had its create called, the tables whose
\* create raised are the only ones missing from the record-id map, and the
\* call returns that map with the agreement name.
C10_TableFailureIsolated ==
    (pc.phase = "done" /\ airtable_configured /\ json_file.valid)
    => /\ \A t \in DOMAIN json_file.data : Attempted(AirtableTableName(t)) # {}
       /\ DOMAIN record_id =
             {AirtableTableName(t) : t \in {x \in DOMAIN json_file.data :
                                               Created(AirtableTableName(x)) # {}}}
       /\ \A t \in DOMAIN record_id : \E i \in Created(t) : record_id[t] = api_calls[i].id
       /\ airtable_result =
             ReturnValue([record_id |-> record_id,
                          agreement_name |-> ResolveAgreementName(json_file.data)])

\* The creates of Details and Registration Information raised, General
\* Information was created after the first failure, and the map was returned.
C10_Witness ==
    /\ pc.phase = "done"
    /\ airtable_result # ReturnValue(None)
    /\ \E d \in Attempted("Details") \ Created("Details") :
          \E g \in Created("General Information") : d < g
    /\ Attempted("Registration Information") # {}
    /\ Created("Registration Information") = {}
    /\ Created("Account") # {}
    /\ "General Information" \in DOMAIN record_id
    /\ "Details" \notin DOMAIN record_id

\* The tables of the CRM base that hold contract data.
CrmTableNames ==
    {"Account", "Contacts", "Details", "Documents", "General Information",
     "Licensing Approvals", "Royalties & Accounting", "Registration Information"}

\* C24: the record-id map that upload_to_airtable returns has a key for a CRM
\* table exactly when the create for that table returned, with the id of the
\* record created; the source table "R & A" appears under "Royalties &
\* Accounting" and never under its own name; a table whose create raised is
\* missing; and no table has its create called more than once in a call.
C24_RecordIdMapMatchesCreates ==
    /\ \A i \in Creates : api_calls[i].table \in CrmTableNames
    /\ \A t \in CrmTableNames : Cardinality(Attempted(t)) <= 1
    /\ (airtable_result.type = "returned" /\ airtable_result.value # None) =>
          LET returned == airtable_result.value.record_id
          IN /\ DOMAIN returned \subseteq CrmTableNames
             /\ \A t \in CrmTableNames :
                   /\ t \in DOMAIN returned <=> Created(t) # {}
                   /\ t \in DOMAIN returned =>
                         /\ returned[t] \in DOMAIN airtable
                         /\ airtable[returned[t]].table = t
                         /\ \A i \in Created(t) : api_calls[i].id = returned[t]
             /\ ("R & A" \in DOMAIN json_file.data) =
                   (Attempted("Royalties & Accounting") # {})

\* The R & A table of the document was created and is in the map under the
\* name of the CRM, while the create of Documents raised once and is missing.
C24_Witness ==
    /\ airtable_result.type = "returned"
    /\ airtable_result.value # None
    /\ "R & A" \in DOMAIN json_file.data
    /\ "Royalties & Accounting" \in DOMAIN airtable_result.value.record_id
    /\ Cardinality(Attempted("Documents")) = 1
    /\ Created("Documents") = {}
    /\ "Documents" \notin DOMAIN airtable_result.value.record_id

(***************************************************************************)
(* The service of app.py.  Startup (lines 69-118) fixes the clients; the   *)
(* handlers are coroutines without an await, so requests are served one at *)
(* a time.  Strings that the code inspects are sequences of characters.    *)
(***************************************************************************)
\* Mutant of line 101: mongo_collection starts as None.
MongoCollection_NoneUnlessConnected(cfg) ==
    IF cfg.uri /\ cfg.database /\ cfg.collection /\ cfg.live THEN "Collection" ELSE "None"

\* lines 100-118: the module-level mongo_collection after startup
MongoCollection(cfg) ==
    IF cfg.uri /\ cfg.database /\ cfg.collection
    THEN (IF cfg.live THEN "Collection" ELSE "None")
    ELSE (IF cfg.collection THEN "str" ELSE "None")

\* str.lower, on the characters that occur
Lower(c) ==
    CASE c = "P" -> "p" [] c = "D" -> "d" [] c = "F" -> "f" [] c = "B" -> "b"
      [] OTHER -> c

\* Mutant of line 637: any suffix of three characters passes.
IsPdf_AnySuffix(filename) ==
    /\ Len(filename) >= 4
    /\ filename[Len(filename) - 3] = "."

\* line 637: file.filename.lower().endswith('.pdf')
IsPdf(filename) ==
    /\ Len(filename) >= 4
    /\ [i \in 1..4 |-> Lower(filename[Len(filename) - 4 + i])] = <<".", "p", "d", "f">>

\* line 414: Path(pdf_path).stem of a name with a suffix of three characters
Stem(filename) == SubSeq(filename, 1, Len(filename) - 4)

Filenames ==
    { <<"a", ".", "p", "d", "f">>, <<"b", ".", "P", "D", "F">>, <<"c", ".", "t", "x", "t">> }

\* A string the service builds or inspects, as its characters or parts.
PChars(chars) == [type |-> "chars", chars |-> chars]

\* uuid.uuid4(): a name no earlier call returned
Uuid(n) == <<"uuid", n>>

\* A call made to an integration.
Call(service, op, arguments) == [service |-> service, op |-> op, arguments |-> arguments]

\* Templated documents, by their top-level keys: the Details table with its
\* Agreement Name, and the legacy key "Amendment Changes".
ContractDocument(name, legacy) ==
    [k \in {"Details"} \cup (IF legacy THEN {"Amendment Changes"} ELSE {}) |->
        IF k = "Details" THEN Fields1("Agreement Name", ValueField(PStr(name)))
        ELSE PStr("")]

ContractDocuments == {ContractDocument("Deal", TRUE), ContractDocument("", FALSE)}

\* post_processing.py:333-360, called at app.py:509-515 without table_name
update_amendment_changes_table(contract_id, name, records, created) ==
    LET table_name == "Amendment Changes"
        link == <<"frontend_url", "/", contract_id>>
        base == Fields2("Link", PChars(link), "Amendment Changes", PStr(""))
        record_data == IF Truthy(name) THEN Put(base, "Contract", name) ELSE base
    IN [call |-> Call("crm", "create", [table |-> table_name, data |-> record_data]),
        crm |-> IF created THEN Append(records, Record(table_name, record_data))
                ELSE records,
        id |-> IF created THEN Len(records) + 1 ELSE 0]

\* lines 185-193: the document save_to_mongodb inserts
ContractRecord(contract_id, file_name, s3_link, ids, actual_json, utilities_id, now) ==
    [k \in {"contract_id", "file_name", "s3_link", "record_id", "actual_json",
            "amendment_changes_record_id", "created_at"} |->
        CASE k = "contract_id" -> PChars(contract_id)
          [] k = "file_name" -> PChars(file_name)
          [] k = "s3_link" -> s3_link
          [] k = "record_id" -> PDict(ids)
          [] k = "actual_json" -> PDict(actual_json)
          [] k = "amendment_changes_record_id" ->
                (IF utilities_id = 0 THEN None ELSE PNum(utilities_id))
          [] k = "created_at" -> PNum(now)]

\* lines 416-429, without extraction_time and llm_time
NewResult(filename) ==
    [k \in {"filename", "status", "total_time", "output_path", "s3_link", "contract_id",
            "mongodb_id", "airtable_record_id", "amendment_changes_record_id", "error"} |->
        CASE k = "filename" -> PChars(filename)
          [] k = "status" -> PStr("processing")
          [] k = "total_time" -> PNum(0)
          [] OTHER -> None]

\* The templated document that a file's text yields: one contract names its
\* agreement, the other leaves the name empty.
DocumentOf(filename) ==
    ContractDocument(IF filename = <<"a">> THEN "Deal" ELSE "", FALSE)

\* lines 480-492: upload_to_airtable as the service sees it, for a document
\* whose only table is Details
UploadToAirtable(filename, contract, records, outcome) ==
    LET name == ResolveAgreementName(contract)
        record_data == SecondPassRecordData("Details", contract["Details"], name, 0, 0)
        created == outcome = "created"
    IN [call |-> Call("crm", "upload_to_airtable", filename),
        crm |-> IF created THEN Append(records, Record("Details", record_data))
                ELSE records,
        airtable_result |->
            IF outcome = "raises" THEN None
            ELSE [record_id |-> IF created THEN Fields1("Details", Len(records) + 1)
                                ELSE EmptyDict,
                  agreement_name |-> name]]

\* Mutant of lines 91-98: a client is built whatever the configuration.
s3_client_Always == TRUE

\* lines 91-98: the module's s3_client is set when the storage variables are
s3_client == config.s3

\* lines 135-156
upload_to_s3(client, object_name, outcome) ==
    IF ~client THEN [calls |-> <<>>, s3_url |-> None, raised |-> FALSE]
    ELSE [calls |-> <<Call("s3", "upload_file", object_name)>>,
          s3_url |-> IF outcome = "url" THEN PChars(<<"https://", object_name>>) ELSE None,
          raised |-> outcome = "error"]

\* lines 181-198
save_to_mongodb(handle, documents, new_document, inserted) ==
    IF handle = "None" THEN [calls |-> <<>>, collection |-> documents, id |-> None]
    ELSE IF handle = "str" THEN [calls |-> <<>>, collection |-> documents, id |-> None]
    ELSE [calls |-> <<Call("mongodb", "insert_one", new_document)>>,
          collection |-> IF inserted THEN Append(documents, new_document) ELSE documents,
          id |-> IF inserted THEN PChars(<<"oid", Len(documents) + 1>>) ELSE None]

\* Mutant of line 502: the record is saved whether or not the upload gave a link.
SavesContract_WithoutLink(handle, s3_url) == handle # "None"

\* line 502: if mongo_collection is not None and s3_url
SavesContract(handle, s3_url) == handle # "None" /\ Truthy(s3_url)

(***************************************************************************)
(* POST /process-pdf (lines 621-688), one request from arrival to response.*)
(***************************************************************************)
\* The uploads of a request: one file or two, named well or not.
Uploads == {<<f>> : f \in Filenames} \cup {<<f, g>> : f, g \in Filenames}

\* lines 69-86: the variables that are set; the liveness check of lines 104-110
\* is only made, and can only fail, when the three database variables are set.
Configurations ==
    {c \in [airtable : BOOLEAN, s3 : BOOLEAN, uri : BOOLEAN, database : BOOLEAN,
            collection : BOOLEAN, live : BOOLEAN] :
        c.live \/ (c.uri /\ c.database /\ c.collection)}

HttpResponse(status, body) == [status |-> status, body |-> body]

\* lines 661-674
Summary(files, results) ==
    [summary |->
        [total_files |-> Len(files),
         successful |-> Cardinality({i \in DOMAIN results :
                                        results[i]["status"] = PStr("success")}),
         failed |-> Cardinality({i \in DOMAIN results :
                                    results[i]["status"] = PStr("failed")})],
     results |-> results]

InitProcessPdf ==
    /\ config \in Configurations
    /\ mongo_collection = MongoCollection(config)
    /\ collection = <<>>
    /\ crm = <<>>
    /\ external_calls = <<>>
    /\ filesystem = [temp |-> EmptyDict, outputs |-> {}]
    /\ \E files \in Uploads :
          request = [endpoint |-> "process-pdf", files |-> files, phase |-> "validate",
                     index |-> 1, temp_dir |-> 0, results |-> <<>>,
                     run |-> [step |-> "start", result |-> EmptyDict,
                              airtable_record |-> None, agreement_name |-> None,
                              s3_url |-> None],
                     pending |-> HttpResponse(0, None), rmtree |-> "not called"]
    /\ response = HttpResponse(0, None)
    /\ clock = 0
    /\ IdleDoc
    /\ IdleText
    /\ IdleFlat
    /\ IdleCrm

notApp == <<docVars, textVars, flatVars, crmVars>>

\* lines 635-645: every filename is checked, then the directory is made
ValidateFilenames ==
    /\ request.endpoint = "process-pdf"
    /\ request.phase = "validate"
    /\ IF \E i \in DOMAIN request.files : ~IsPdf(request.files[i])
       THEN /\ response' = HttpResponse(400, None)
            /\ request' = [request EXCEPT !.phase = "done"]
            /\ UNCHANGED <<filesystem, clock>>
       ELSE /\ filesystem' = [filesystem EXCEPT !.temp = Put(@, clock + 1, {})]
            /\ request' = [request EXCEPT !.phase = "files", !.temp_dir = clock + 1]
            /\ clock' = clock + 1
            /\ UNCHANGED response
    /\ UNCHANGED <<config, mongo_collection, collection, crm, external_calls, notApp>>

\* The locals of process_single_pdf between its steps.
Run(step, result, airtable_record, name, s3_url) ==
    [step |-> step, result |-> result, airtable_record |-> airtable_record,
     agreement_name |-> name, s3_url |-> s3_url]

NoRun == Run("start", EmptyDict, None, None, None)

\* line 532: the time measured since process_start, a duration that the run
\* does not otherwise inspect
Elapsed == PStr("time() - process_start")

\* Mutant of lines 657-658: a failed file ends the loop over the files.
Finish_StopsAtFailure(result) ==
    IF result["status"] = PStr("failed")
    THEN [request EXCEPT !.index = Len(request.files) + 1,
                         !.results = Append(@, Put(result, "total_time", Elapsed)),
                         !.run = NoRun]
    ELSE [request EXCEPT !.index = @ + 1,
                         !.results = Append(@, Put(result, "total_time", Elapsed)),
                         !.run = NoRun]

\* lines 532-533 and 657-658: total_time is recorded, process_single_pdf
\* returns and the result joins the results
Finish(result) ==
    [request EXCEPT !.index = @ + 1,
                    !.results = Append(@, Put(result, "total_time", Elapsed)),
                    !.run = NoRun]

\* Mutant of lines 528-530: the status set before the exception is kept.
Failed_KeepsStatus(result) == Put(result, "error", PStr("exception"))

\* lines 528-530
Failed(result) == Put(Put(result, "status", PStr("failed")), "error", PStr("exception"))

\* lines 651-658 and 414-477: the upload is copied into the directory, its text
\* is extracted, the model answers and the templated document is written, or
\* one of these raises
ExtractDocument ==
    /\ request.endpoint = "process-pdf"
    /\ request.phase = "files"
    /\ request.index <= Len(request.files)
    /\ request.run.step = "start"
    /\ LET file == request.files[request.index]
           filename == Stem(file)
           result == NewResult(filename)
           copied == Put(filesystem.temp, request.temp_dir,
                         filesystem.temp[request.temp_dir] \cup {file})
       IN \/ /\ filesystem' = [filesystem EXCEPT !.temp = copied]
             /\ request' = Finish(Failed(result))
          \/ /\ filesystem' = [temp |-> copied,
                                outputs |-> filesystem.outputs \cup {filename}]
             /\ request' =
                   [request EXCEPT !.run =
                       Run("airtable",
                           Put(Put(Put(result, "output_path",
                                       PChars(<<"outputs/", filename>>)),
                                   "actual_json", PDict(DocumentOf(filename))),
                               "status", PStr("success")),
                           None, None, None)]
    /\ UNCHANGED <<config, mongo_collection, collection, crm, external_calls, response,
                   clock, notApp>>

\* lines 479-492
UploadRecords ==
    /\ request.endpoint = "process-pdf"
    /\ request.run.step = "airtable"
    /\ IF ~config.airtable
       THEN /\ request' = [request EXCEPT !.run.step = "s3"]
            /\ UNCHANGED <<crm, external_calls>>
       ELSE \E outcome \in {"raises", "no record", "created"} :
               LET filename == request.run.result["filename"].chars
                   upload == UploadToAirtable(filename, DocumentOf(filename), crm, outcome)
                   uploaded == upload.airtable_result
                   airtable_record == IF uploaded # None
                                      THEN PDict(uploaded.record_id) ELSE None
                   name == IF uploaded # None
                           THEN uploaded.agreement_name ELSE None
               IN /\ crm' = upload.crm
                  /\ external_calls' = Append(external_calls, upload.call)
                  /\ request' =
                        [request EXCEPT !.run =
                            Run("s3", Put(@.result, "airtable_record_id", airtable_record),
                                airtable_record, name, None)]
    /\ UNCHANGED <<config, mongo_collection, collection, filesystem, response, clock,
                   notApp>>

\* lines 494-499, and lines 528-530 when the upload raises
UploadPdf ==
    /\ request.endpoint = "process-pdf"
    /\ request.run.step = "s3"
    /\ IF ~s3_client
       THEN /\ request' = [request EXCEPT !.run.step = "save"]
            /\ UNCHANGED external_calls
       ELSE \E outcome \in {"url", "ClientError", "error"} :
               LET filename == request.run.result["filename"].chars
                   stored == upload_to_s3(s3_client, <<"contracts/", filename, ".pdf">>,
                                          outcome)
               IN /\ external_calls' = external_calls \o stored.calls
                  /\ request' =
                        IF stored.raised THEN Finish(Failed(request.run.result))
                        ELSE [request EXCEPT
                                 !.run.step = "save",
                                 !.run.s3_url = stored.s3_url,
                                 !.run.result = Put(@, "s3_link", stored.s3_url)]
    /\ UNCHANGED <<config, mongo_collection, collection, crm, filesystem, response, clock,
                   notApp>>

\* lines 501-526
SaveContract ==
    /\ request.endpoint = "process-pdf"
    /\ request.run.step = "save"
    /\ IF ~SavesContract(mongo_collection, request.run.s3_url)
       THEN /\ request' = Finish(request.run.result)
            /\ UNCHANGED <<collection, crm, external_calls, clock>>
       ELSE \E created \in (IF config.airtable THEN BOOLEAN ELSE {FALSE}),
               inserted \in (IF mongo_collection = "Collection" THEN BOOLEAN ELSE {FALSE}) :
               LET run == request.run
                   contract_id == Uuid(clock + 1)
                   utilities == update_amendment_changes_table(contract_id,
                                    run.agreement_name, crm, created)
                   utilities_id == IF config.airtable THEN utilities.id ELSE 0
                   new_document ==
                       ContractRecord(contract_id, run.result["filename"].chars,
                                      run.s3_url,
                                      IF Truthy(run.airtable_record)
                                      THEN run.airtable_record.items ELSE EmptyDict,
                                      run.result["actual_json"].items, utilities_id,
                                      clock + 1)
                   saved == save_to_mongodb(mongo_collection, collection, new_document,
                                            inserted)
                   linked == IF config.airtable
                             THEN Put(run.result, "amendment_changes_record_id",
                                      IF utilities_id = 0 THEN None
                                      ELSE PNum(utilities_id))
                             ELSE run.result
               IN /\ crm' = IF config.airtable THEN utilities.crm ELSE crm
                  /\ collection' = saved.collection
                  /\ external_calls' =
                        external_calls
                        \o (IF config.airtable THEN <<utilities.call>> ELSE <<>>)
                        \o saved.calls
                  /\ clock' = clock + 1
                  /\ request' = Finish(Put(Put(linked, "contract_id", PChars(contract_id)),
                                           "mongodb_id", saved.id))
    /\ UNCHANGED <<config, mongo_collection, filesystem, response, notApp>>

\* lines 653-654 raising, then lines 678-682: the copy fails and the request
\* ends with 500
CopyFails ==
    /\ request.endpoint = "process-pdf"
    /\ request.phase = "files"
    /\ request.index <= Len(request.files)
    /\ request.run.step = "start"
    /\ request' = [request EXCEPT !.phase = "finally",
                                  !.pending = HttpResponse(500, None)]
    /\ UNCHANGED <<config, mongo_collection, collection, crm, external_calls, filesystem,
                   response, clock, notApp>>

\* lines 660-674
SummariseResults ==
    /\ request.endpoint = "process-pdf"
    /\ request.phase = "files"
    /\ request.index > Len(request.files)
    /\ request' = [request EXCEPT
                      !.phase = "finally",
                      !.pending = HttpResponse(200, Summary(request.files, request.results))]
    /\ UNCHANGED <<config, mongo_collection, collection, crm, external_calls, filesystem,
                   response, clock, notApp>>

\* Mutant of lines 683-688: the directory is left in place.
RemoveTree_Keep(temp, dir) == temp

\* shutil.rmtree(temp_dir) when it returns
RemoveTree(temp, dir) == Pop(temp, dir)

\* lines 683-688: finally, rmtree returns or raises; then the response leaves
CleanUp ==
    /\ request.endpoint = "process-pdf"
    /\ request.phase = "finally"
    /\ \/ /\ filesystem' = [filesystem EXCEPT !.temp = RemoveTree(@, request.temp_dir)]
          /\ request' = [request EXCEPT !.phase = "done", !.rmtree = "returned"]
       \/ /\ UNCHANGED filesystem
          /\ request' = [request EXCEPT !.phase = "done", !.rmtree = "raised"]
    /\ response' = request.pending
    /\ UNCHANGED <<config, mongo_collection, collection, crm, external_calls, clock,
                   notApp>>

NextProcessPdf ==
    \/ ValidateFilenames
    \/ ExtractDocument
    \/ UploadRecords
    \/ UploadPdf
    \/ SaveContract
    \/ CopyFails
    \/ SummariseResults
    \/ CleanUp

(***************************************************************************)
(* Properties of POST /process-pdf and process_single_pdf.                 *)
(***************************************************************************)
Uploading == request.endpoint = "process-pdf"

\* The results of the request, with that of the run in progress once its
\* document has been written.
ResultsSoFar ==
    IF ~Uploading THEN <<>>
    ELSE IF request.run.step = "start" THEN request.results
    ELSE Append(request.results, request.run.result)

CallsTo(service, op) ==
    {i \in DOMAIN external_calls :
        external_calls[i].service = service /\ external_calls[i].op = op}

Unconfigured ==
    /\ ~config.airtable /\ ~config.s3
    /\ ~config.uri /\ ~config.database /\ ~config.collection

PdfSuffixes ==
    {<<".", p, d, f>> : p \in {"p", "P"}, d \in {"d", "D"}, f \in {"f", "F"}}

NamedPdf(filename) ==
    Len(filename) >= 4 /\ SubSeq(filename, Len(filename) - 3, Len(filename)) \in PdfSuffixes

\* C14: a /process-pdf request with a filename that does not end in ".pdf" in
\* any letter case is answered 400 before any work: no directory is made, no
\* file is copied or processed, nothing is written and no integration is
\* called, also when well-named files precede the bad one; a request whose
\* names all end in ".pdf" is not refused.
C14_FilenamesValidatedFirst ==
    Uploading =>
        IF \E i \in DOMAIN request.files : ~NamedPdf(request.files[i])
        THEN /\ request.phase \in {"validate", "done"}
             /\ request.temp_dir = 0
             /\ filesystem = [temp |-> EmptyDict, outputs |-> {}]
             /\ request.results = <<>> /\ request.run.step = "start"
             /\ external_calls = <<>> /\ crm = <<>> /\ collection = <<>>
             /\ request.phase = "done" => response.status = 400
        ELSE response.status # 400 /\ (request.phase # "validate" => request.temp_dir # 0)

\* A request whose second filename is bad, after a good first one, was refused.
C14_Witness ==
    /\ Uploading
    /\ request.phase = "done"
    /\ Len(request.files) = 2
    /\ NamedPdf(request.files[1]) /\ ~NamedPdf(request.files[2])
    /\ response.status = 400

\* The request has made its temporary directory.
PastValidation == Uploading /\ request.temp_dir # 0

\* C15 as stated: once a request that passed validation has finished, its
\* temporary directory is gone, whatever the outcome.
C15_DirectoryAlwaysRemoved ==
    (PastValidation /\ request.phase = "done")
    => request.temp_dir \notin DOMAIN filesystem.temp

\* C15: a request that passes validation makes a directory of its own, keeps
\* it while it works, and calls rmtree on it on every way out (200, a failed
\* file, 500); the directory is gone whenever rmtree returns, and stays
\* behind only when rmtree itself raises, which the handler ignores.
C15_DirectoryRemovalAttempted ==
    PastValidation =>
        /\ request.phase \in {"files", "finally"} =>
              /\ DOMAIN filesystem.temp = {request.temp_dir}
              /\ request.rmtree = "not called"
        /\ request.phase = "done" =>
              /\ response.status \in {200, 500}
              /\ request.rmtree \in {"returned", "raised"}
              /\ request.rmtree = "returned" => filesystem.temp = EmptyDict
              /\ request.rmtree = "raised" => DOMAIN filesystem.temp = {request.temp_dir}

\* A 500 and a 200 with a failed file both left no directory behind.
C15_Witness ==
    /\ PastValidation
    /\ request.phase = "done"
    /\ request.rmtree = "returned"
    /\ filesystem.temp = EmptyDict
    /\ \/ response.status = 500
       \/ /\ response.status = 200
          /\ response.body.summary.failed > 0

\* The calls that created a utilities record, in either table name.
UtilitiesCreates ==
    {i \in CallsTo("crm", "create") :
        external_calls[i].arguments.table \in {"Contract Utilities", "Amendment Changes"}}

\* The results that carry a contract_id.
WithContractId == {i \in DOMAIN ResultsSoFar : ResultsSoFar[i]["contract_id"] # None}

\* C20: a contract record is inserted at most once per processed PDF and only
\* for a PDF whose upload to object storage returned a URL: every insert,
\* every utilities record and every contract_id belongs to one result whose
\* s3_link is set, no two share a result, and when object storage is
\* unconfigured or its upload fails there is none.
C20_InsertOnlyAfterUpload ==
    Uploading =>
        /\ \A i \in WithContractId : Truthy(ResultsSoFar[i]["s3_link"])
        /\ \A c \in CallsTo("mongodb", "insert_one") \cup UtilitiesCreates :
              \E i \in WithContractId :
                 /\ LET arguments == external_calls[c].arguments
                    IN IF external_calls[c].service = "mongodb"
                       THEN /\ arguments["contract_id"] = ResultsSoFar[i]["contract_id"]
                            /\ arguments["s3_link"] = ResultsSoFar[i]["s3_link"]
                            /\ Truthy(arguments["s3_link"])
                       ELSE arguments.data["Link"] =
                               PChars(<<"frontend_url", "/",
                                        ResultsSoFar[i]["contract_id"].chars>>)
        /\ \A i, j \in WithContractId :
              ResultsSoFar[i]["contract_id"] = ResultsSoFar[j]["contract_id"] => i = j
        /\ Cardinality(CallsTo("mongodb", "insert_one")) <= Cardinality(WithContractId)
        /\ Cardinality(UtilitiesCreates) <= Cardinality(WithContractId)
        /\ Len(collection) <= Cardinality(CallsTo("mongodb", "insert_one"))
        /\ ~config.s3 => WithContractId = {}

\* Of two PDFs processed in one request, the one whose upload failed has no
\* contract_id and the other was inserted once.
C20_Witness ==
    /\ Uploading /\ request.phase = "done"
    /\ Len(request.results) = 2
    /\ request.results[1]["status"] = PStr("success")
    /\ request.results[1]["s3_link"] = None
    /\ request.results[1]["contract_id"] = None
    /\ request.results[2]["contract_id"] # None
    /\ Len(collection) = 1
    /\ Cardinality(CallsTo("mongodb", "insert_one")) = 1

\* lines 100-118 as the specification reads them: the database is enabled
DatabaseEnabled == config.uri /\ config.database /\ config.collection /\ config.live

(***************************************************************************)
(* POST /reviewer_submit and GET /get_contract (lines 201-398, 564-618,    *)
(* 691-750), served against the contract records that earlier uploads left.*)
(***************************************************************************)
\* What one processed PDF leaves behind when its contract record is saved
\* (lines 480-526): the records of the CRM and the document of the database.
StoreContract(store, filename, upload, created) ==
    LET contract_id == Uuid(Len(store.collection) + 1)
        now == Len(store.collection) + 1
        templated == DocumentOf(filename)
        uploaded == UploadToAirtable(filename, templated, store.crm, upload)
        utilities == update_amendment_changes_table(
                         contract_id, uploaded.airtable_result.agreement_name,
                         uploaded.crm, created)
        s3_url == upload_to_s3(TRUE, <<"contracts/", filename, ".pdf">>, "url").s3_url
    IN [crm |-> utilities.crm,
        collection |->
            Append(store.collection,
                   ContractRecord(contract_id, filename, s3_url,
                                  uploaded.airtable_result.record_id, templated,
                                  utilities.id, now))]

\* The same without a CRM.
StoreContractOnly(store, filename) ==
    LET contract_id == Uuid(Len(store.collection) + 1)
        s3_url == upload_to_s3(TRUE, <<"contracts/", filename, ".pdf">>, "url").s3_url
    IN [crm |-> store.crm,
        collection |->
            Append(store.collection,
                   ContractRecord(contract_id, filename, s3_url, EmptyDict,
                                  DocumentOf(filename), 0,
                                  Len(store.collection) + 1))]

RECURSIVE Stores(_, _)
Stores(n, with_crm) ==
    IF n = 0 THEN {[crm |-> <<>>, collection |-> <<>>]}
    ELSE LET fewer == Stores(n - 1, with_crm)
             full == {st \in fewer : Len(st.collection) = n - 1}
         IN fewer \cup
            (IF with_crm
             THEN {StoreContract(st, <<"a">>, upload, created) :
                      st \in full, upload \in {"no record", "created"}, created \in BOOLEAN}
             ELSE {StoreContractOnly(st, <<"a">>) : st \in full})

\* The position of the document find_one and update_one select, 0 for none.
FindOne(documents, contract_id) ==
    LET matching == {i \in DOMAIN documents :
                        documents[i]["contract_id"] = PChars(contract_id)}
    IN IF matching = {} THEN 0 ELSE Min(matching)

\* Mutant of lines 241-245: the record is not marked as reviewed.
SetReviewed_NotMarked(stored, edited, now) ==
    Put(Put(stored, "actual_json", PDict(edited)), "updated_at", PNum(now))

\* Mutant of lines 247-250: a record already reviewed is left as it is.
SetReviewed_FirstWins(stored, edited, now) ==
    IF "reviewed" \in DOMAIN stored THEN stored
    ELSE Put(Put(Put(stored, "actual_json", PDict(edited)), "updated_at", PNum(now)),
             "reviewed", TRUE)

\* Mutant of lines 241-245: the update also restamps created_at.
SetReviewed_Restamped(stored, edited, now) ==
    Put(Put(Put(Put(stored, "actual_json", PDict(edited)), "updated_at", PNum(now)),
            "reviewed", TRUE), "created_at", PNum(now))

\* lines 241-250: update_one with $set
SetReviewed(stored, edited, now) ==
    Put(Put(Put(stored, "actual_json", PDict(edited)), "updated_at", PNum(now)),
        "reviewed", TRUE)

\* The CRM answers an update of a record only in the table that holds it.
Updatable(records, table, id) == id \in DOMAIN records /\ records[id].table = table

\* Mutant of lines 312, 363, 376 and 385: every update that returns is listed.
CrmUpdate_AlwaysListed(table, id, data, listed) ==
    [table |-> table, id |-> id, data |-> data, listed |-> TRUE]

\* One table.update that the reviewer path asks of the CRM; listed is whether
\* its table is appended to updated_tables when it returns.
CrmUpdate(table, id, data, listed) ==
    [table |-> table, id |-> id, data |-> data, listed |-> listed]

\* lines 264-388: the updates requested of the CRM, in order: Account and
\* Contacts, the other tables of the edited document that the stored map
\* names, the link of Contacts to Account, and the utilities record
CrmUpdates(stored, edited) ==
    LET ids == stored["record_id"].items
        name == ResolveAgreementName(edited)
        utilities_id == stored["amendment_changes_record_id"]
        first_tables == SelectSeq(FirstPassTables,
                                  LAMBDA t : t \in DOMAIN edited /\ t \in DOMAIN ids)
        first == [i \in DOMAIN first_tables |->
                    CrmUpdate(first_tables[i], ids[first_tables[i]],
                              FirstPassRecordData(first_tables[i], edited[first_tables[i]]),
                              TRUE)]
        account_id == IF \E i \in DOMAIN first_tables : first_tables[i] = "Account"
                      THEN ids["Account"] ELSE 0
        contact_id == IF \E i \in DOMAIN first_tables : first_tables[i] = "Contacts"
                      THEN ids["Contacts"] ELSE 0
        second_tables == SelectSeq(Items(edited),
                                   LAMBDA t : /\ t \notin {"Account", "Contacts"}
                                              /\ AirtableTableName(t) \in DOMAIN ids)
        second == [i \in DOMAIN second_tables |->
                     CrmUpdate(AirtableTableName(second_tables[i]),
                               ids[AirtableTableName(second_tables[i])],
                               SecondPassRecordData(second_tables[i],
                                                    edited[second_tables[i]], name,
                                                    account_id, contact_id),
                               TRUE)]
        link ==
            IF account_id # 0 /\ contact_id # 0
            THEN <<CrmUpdate("Contacts", contact_id,
                             Fields1("Account Name", PList(<<account_id>>)), FALSE)>>
            ELSE <<>>
        utilities ==
            IF Truthy(utilities_id) /\ Truthy(name)
            THEN <<CrmUpdate("Contract Utilities", utilities_id.n,
                             Fields1("Contract", name), FALSE)>>
            ELSE <<>>
    IN first \o second \o link \o utilities

\* table.update for each requested update in turn: it returns when the CRM
\* answers and holds the record in that table, and raises otherwise
RECURSIVE ApplyUpdates(_, _, _)
ApplyUpdates(records, updates, answers) ==
    IF updates = <<>> THEN [crm |-> records, calls |-> <<>>, updated |-> <<>>]
    ELSE LET u == Head(updates)
             ok == answers /\ Updatable(records, u.table, u.id)
             rest == ApplyUpdates(
                         IF ok THEN [records EXCEPT ![u.id].fields = Updated(@, u.data)]
                         ELSE records,
                         Tail(updates), answers)
         IN [crm |-> rest.crm,
             calls |-> <<Call("crm", "update", u)>> \o rest.calls,
             updated |-> (IF ok /\ u.listed THEN <<u.table>> ELSE <<>>) \o rest.updated]

\* lines 201-398.  database is how the database answers: "ok", "find_one
\* raises" or "update_one raises"; crm_answers is whether the CRM does.
update_mongodb_and_airtable(contract_id, edited, database, crm_answers) ==
    LET unchanged == [collection |-> collection, crm |-> crm, calls |-> <<>>,
                      mongodb_updated |-> FALSE, airtable_updated |-> FALSE,
                      updated_tables |-> <<>>, error |-> "None"]
        find == Call("mongodb", "find_one", contract_id)
        update == Call("mongodb", "update_one",
                       [contract_id |-> contract_id, set |-> edited,
                        raised |-> database = "update_one raises"])
        at == FindOne(collection, contract_id)
    IN IF mongo_collection = "None"
       THEN [unchanged EXCEPT !.error = "MongoDB not configured"]
       ELSE IF mongo_collection = "str"
       THEN [unchanged EXCEPT !.error = "exception"]
       ELSE IF database = "find_one raises"
       THEN [unchanged EXCEPT !.error = "exception", !.calls = <<find>>]
       ELSE IF at = 0
       THEN [unchanged EXCEPT !.error = "not found in MongoDB", !.calls = <<find>>]
       ELSE IF database = "update_one raises"
       THEN [unchanged EXCEPT !.error = "exception", !.calls = <<find, update>>]
       ELSE LET stored == collection[at]
                synced ==
                    IF config.airtable /\ Truthy(stored["record_id"])
                    THEN ApplyUpdates(crm, CrmUpdates(stored, edited), crm_answers)
                    ELSE [crm |-> crm, calls |-> <<>>, updated |-> <<>>]
            IN [collection |->
                    [collection EXCEPT ![at] = SetReviewed(stored, edited, clock + 1)],
                crm |-> synced.crm,
                calls |-> <<find, update>> \o synced.calls,
                mongodb_updated |-> TRUE,
                airtable_updated |-> synced.updated # <<>>,
                updated_tables |-> synced.updated,
                error |-> "None"]

Answer(req, status, body) == [status |-> status, body |-> body, request |-> req]

\* HTTPException(status_code, detail)
Refusal(req, status, detail) == Answer(req, status, [detail |-> detail])

\* Mutant of lines 710-720: only the contract_id is required.
InvalidSubmission_IdOnly(contract_id, submitted) == contract_id = <<>>

\* lines 710-720: not contract_id, not json_data
InvalidSubmission(contract_id, submitted) == contract_id = <<>> \/ submitted = EmptyDict

\* The ids a client may send: none, those of the first records, and one
\* that no record has.
SentIds == {<<>>, Uuid(0)} \cup {Uuid(n) : n \in 1..MaxRecords}

InitReview ==
    /\ config \in Configurations
    /\ mongo_collection = MongoCollection(config)
    /\ \E store \in Stores(IF mongo_collection = "Collection" /\ config.s3
                           THEN MaxRecords ELSE 0, config.airtable) :
          /\ collection = store.collection
          /\ crm = store.crm
          /\ clock = Len(store.collection)
    /\ external_calls = <<>>
    /\ filesystem = [temp |-> EmptyDict, outputs |-> {}]
    /\ request = [endpoint |-> "review", served |-> 0]
    /\ response = Answer([endpoint |-> "none"], 0, None)
    /\ IdleDoc
    /\ IdleText
    /\ IdleFlat
    /\ IdleCrm

\* lines 691-750
ReviewerSubmit ==
    /\ request.endpoint = "review"
    /\ request.served < MaxRequests
    /\ \E contract_id \in SentIds, submitted \in {EmptyDict} \cup ContractDocuments,
          database \in {"ok", "find_one raises", "update_one raises"},
          crm_answers \in BOOLEAN :
          LET req == [endpoint |-> "reviewer_submit", contract_id |-> contract_id,
                      json_file |-> submitted]
          IN IF InvalidSubmission(contract_id, submitted)
             THEN /\ response' = Refusal(req, 400, "required")
                  /\ UNCHANGED <<collection, crm, external_calls>>
             ELSE LET result == update_mongodb_and_airtable(contract_id, submitted,
                                                            database, crm_answers)
                  IN /\ collection' = result.collection
                     /\ crm' = result.crm
                     /\ external_calls' = external_calls \o result.calls
                     /\ response' =
                           IF result.error = "not found in MongoDB"
                           THEN Refusal(req, 404, result.error)
                           ELSE IF result.error # "None"
                           THEN Refusal(req, 500, result.error)
                           ELSE Answer(req, 200,
                                       [status |-> "success",
                                        contract_id |-> contract_id,
                                        mongodb_updated |-> result.mongodb_updated,
                                        airtable_updated |-> result.airtable_updated,
                                        updated_tables |-> result.updated_tables])
    /\ request' = [request EXCEPT !.served = @ + 1]
    /\ clock' = clock + 1
    /\ UNCHANGED <<config, mongo_collection, filesystem, notApp>>

\* Mutant of lines 597-601: the legacy key is left in the payload.
VisibleJson_Unfiltered(actual_json) == actual_json

\* lines 597-601
VisibleJson(actual_json) == Pop(actual_json, "Amendment Changes")

\* lines 564-618
GetContract ==
    /\ request.endpoint = "review"
    /\ request.served < MaxRequests
    /\ \E contract_id \in SentIds \ {<<>>}, answers \in BOOLEAN :
          LET req == [endpoint |-> "get_contract", contract_id |-> contract_id]
              find == Call("mongodb", "find_one", contract_id)
              at == FindOne(collection, contract_id)
          IN IF mongo_collection = "None"
             THEN /\ response' = Refusal(req, 503, "MongoDB not configured or unavailable")
                  /\ UNCHANGED external_calls
             ELSE IF mongo_collection = "str"
             THEN /\ response' = Refusal(req, 500, "exception")
                  /\ UNCHANGED external_calls
             ELSE /\ external_calls' = Append(external_calls, find)
                  /\ response' =
                        IF ~answers THEN Refusal(req, 500, "exception")
                        ELSE IF at = 0 THEN Refusal(req, 404, "not found")
                        ELSE Answer(req, 200,
                                    [contract_id |-> contract_id,
                                     file_name |-> collection[at]["file_name"],
                                     s3_link |-> collection[at]["s3_link"],
                                     actual_json |->
                                         VisibleJson(collection[at]["actual_json"].items)])
    /\ request' = [request EXCEPT !.served = @ + 1]
    /\ clock' = clock + 1
    /\ UNCHANGED <<config, mongo_collection, collection, crm, filesystem, notApp>>

NextReview ==
    \/ ReviewerSubmit
    \/ GetContract

(***************************************************************************)
(* The service: one upload request on an empty store, or reviewer traffic  *)
(* on the records that uploads have left.                                  *)
(***************************************************************************)
InitService == InitProcessPdf \/ InitReview

NextService == NextProcessPdf \/ NextReview

SpecService == InitService /\ [][NextService]_vars

(***************************************************************************)
(* Properties of the reviewer and fetch requests.                          *)
(***************************************************************************)
Answered(endpoint) ==
    /\ request.endpoint = "review"
    /\ response.request.endpoint = endpoint

\* A document without its top-level key "Amendment Changes".
WithoutLegacyKey(actual_json) ==
    [k \in DOMAIN actual_json \ {"Amendment Changes"} |-> actual_json[k]]

\* C12: GET /get_contract for a stored record answers 200 with contract_id,
\* file_name, s3_link and actual_json, the stored document without its
\* top-level key "Amendment Changes" and otherwise the same; for an id that
\* no record has it answers 404; the stored records are left as they were.
C12_GetContractHidesLegacyKey ==
    /\ []((Answered("get_contract") /\ mongo_collection = "Collection"
           /\ response.status # 500)
          => LET at == FindOne(collection, response.request.contract_id)
             IN IF at = 0 THEN response.status = 404
                ELSE /\ response.status = 200
                     /\ response.body =
                           [contract_id |-> response.request.contract_id,
                            file_name |-> collection[at]["file_name"],
                            s3_link |-> collection[at]["s3_link"],
                            actual_json |->
                                WithoutLegacyKey(collection[at]["actual_json"].items)])
    /\ [][(request'.endpoint = "review" /\ request' # request
           /\ response'.request.endpoint = "get_contract")
          => collection' = collection /\ crm' = crm]_vars

\* A record whose stored document has the legacy key was fetched.
C12_Witness ==
    /\ Answered("get_contract")
    /\ response.status = 200
    /\ LET at == FindOne(collection, response.request.contract_id)
       IN /\ "Amendment Changes" \in DOMAIN collection[at]["actual_json"].items
          /\ DOMAIN response.body.actual_json = {"Details"}

\* C13: POST /reviewer_submit with an empty contract_id or an empty json_file
\* answers 400 and reads or writes nothing in the database and calls no CRM.
C13_EmptySubmissionRefused ==
    [][(/\ request'.endpoint = "review" /\ request' # request
        /\ response'.request.endpoint = "reviewer_submit"
        /\ \/ response'.request.contract_id = <<>>
           \/ response'.request.json_file = EmptyDict)
       => /\ response'.status = 400
          /\ collection' = collection
          /\ crm' = crm
          /\ external_calls' = external_calls]_vars

\* An empty json_file for a stored contract was refused, with the database
\* and the CRM configured.
C13_Witness ==
    /\ Answered("reviewer_submit")
    /\ response.status = 400
    /\ response.request.json_file = EmptyDict
    /\ FindOne(collection, response.request.contract_id) # 0
    /\ config.airtable
    /\ external_calls = <<>>

\* The records of the CRM that carry a reviewer link.
UtilitiesRecords == {id \in DOMAIN crm : "Link" \in DOMAIN crm[id].fields}

\* C16: the pipeline creates the contract's utilities record in the table
\* "Contract Utilities", with Link = "{frontend_url}/{contract_id}", an empty
\* Amendment Changes and the agreement name as Contract when there is one,
\* and the reviewer path updates the Contract field of that same record in
\* that same table, by the stored amendment_changes_record_id.
C16_UtilitiesRecordInOneTable ==
    /\ \A i \in UtilitiesCreates :
          LET arguments == external_calls[i].arguments
          IN /\ arguments.table = "Contract Utilities"
             /\ arguments.data["Amendment Changes"] = PStr("")
    /\ \A u \in CallsTo("crm", "update") :
          LET arguments == external_calls[u].arguments
          IN arguments.table = "Contract Utilities" =>
                /\ arguments.id \in UtilitiesRecords
                /\ crm[arguments.id].table = arguments.table
                /\ DOMAIN arguments.data = {"Contract"}

\* The last response is that of a fetch.
Fetched == Answered("get_contract")

\* C17: the database is enabled only when DATABASE_URI, DATABASE_NAME and
\* COLLECTION_NAME are all set and the liveness check passed; otherwise
\* GET /get_contract answers 503 and process_single_pdf generates no
\* contract_id, creates no utilities record and attempts no insert.
C17_DatabaseDisabledUnlessAllSet ==
    /\ DatabaseEnabled <=> mongo_collection = "Collection"
    /\ ~DatabaseEnabled =>
          /\ Fetched => response.status = 503
          /\ WithContractId = {}
          /\ UtilitiesCreates = {}
          /\ CallsTo("mongodb", "insert_one") = {}

\* The last response is that of a submission with both inputs given.
SubmittedValid ==
    /\ Answered("reviewer_submit")
    /\ response.request.contract_id # <<>>
    /\ response.request.json_file # EmptyDict

\* The upload request has been answered and every file was named a PDF.
UploadedValid ==
    /\ Uploading /\ request.phase = "done"
    /\ \A i \in DOMAIN request.files : NamedPdf(request.files[i])

ErrorStatus == {500, 503}

UpdatesOf(contract_id) ==
    {i \in CallsTo("mongodb", "update_one") :
        /\ external_calls[i].arguments.contract_id = contract_id
        /\ ~external_calls[i].arguments.raised}

Max(S) == CHOOSE x \in S : \A y \in S : x >= y

UntouchedKeys ==
    {"contract_id", "file_name", "s3_link", "record_id", "amendment_changes_record_id",
     "created_at"}

\* C19: an accepted submission for a stored contract_id sets the record's
\* actual_json to the submitted document, reviewed to true and updated_at, and
\* leaves its other fields and every other record as they were; a record
\* that no submission reached has no "reviewed"; and a fetch after any
\* submissions returns the last submitted document, without "Amendment
\* Changes", under the same contract_id.
C19_SubmissionReplacesDocumentOnly ==
    /\ [][(/\ request'.endpoint = "review" /\ request' # request
           /\ response'.request.endpoint = "reviewer_submit"
           /\ response'.status = 200)
          => LET at == FindOne(collection, response'.request.contract_id)
                 before == collection[at]
                 after == collection'[at]
             IN /\ at # 0
                /\ Len(collection') = Len(collection)
                /\ \A i \in DOMAIN collection : i # at => collection'[i] = collection[i]
                /\ after["actual_json"] = PDict(response'.request.json_file)
                /\ after["reviewed"] = TRUE
                /\ "updated_at" \in DOMAIN after
                /\ DOMAIN after = DOMAIN before \cup {"updated_at", "reviewed"}
                /\ \A k \in DOMAIN before \ {"actual_json", "updated_at", "reviewed"} :
                      after[k] = before[k]
                /\ UntouchedKeys \subseteq DOMAIN before]_vars
    /\ [](\A i \in DOMAIN collection :
             UpdatesOf(collection[i]["contract_id"].chars) = {}
             => "reviewed" \notin DOMAIN collection[i])
    /\ []((Fetched /\ response.status = 200)
          => LET contract_id == response.request.contract_id
                 updates == UpdatesOf(contract_id)
             IN /\ response.body.contract_id = contract_id
                /\ updates # {} =>
                      response.body.actual_json =
                         WithoutLegacyKey(external_calls[Max(updates)].arguments.set))

\* After two submissions for one contract, the second one is what a fetch
\* would return and the record is marked reviewed.
C19_Witness ==
    /\ Answered("reviewer_submit")
    /\ response.status = 200
    /\ LET contract_id == response.request.contract_id
           at == FindOne(collection, contract_id)
       IN /\ Cardinality(UpdatesOf(contract_id)) = 2
          /\ collection[at]["reviewed"] = TRUE
          /\ collection[at]["actual_json"] = PDict(response.request.json_file)
          /\ \E i \in UpdatesOf(contract_id) :
                external_calls[i].arguments.set # response.request.json_file

(***************************************************************************)
(* Failure handling of process_single_pdf (lines 433-533).                 *)
(***************************************************************************)
\* The calls that this step adds to the log.
NewCalls(service, op) ==
    {i \in DOMAIN external_calls' :
        /\ i > Len(external_calls)
        /\ external_calls'[i].service = service
        /\ external_calls'[i].op = op}

\* C21: a failure of the object-storage upload call or of the database insert
\* stays inside upload_to_s3 / save_to_mongodb: after upload_file was called the
\* run goes on to the save step with its status still "success", and after
\* insert_one was called the result is returned with status "success".
C21_StorageFailureContained ==
    /\ [][(Uploading /\ request.run.step = "s3" /\ NewCalls("s3", "upload_file") # {})
          => /\ request'.run.step = "save"
             /\ request'.run.result["status"] = PStr("success")]_vars
    /\ [][(Uploading /\ request.run.step = "save"
           /\ NewCalls("mongodb", "insert_one") # {})
          => /\ Len(request'.results) = Len(request.results) + 1
             /\ request'.results[Len(request'.results)]["status"] = PStr("success")]_vars

\* C22: process_single_pdf always returns a result, never one with status
\* "processing", and every result has its total_time recorded.  A run that
\* reaches the end of its steps returns "success" with error None; a run that
\* an exception cut short returns "failed" with the error set.  When the
\* exception comes after the output file was written, "success" is replaced by
\* "failed", output_path stays set, the file stays written and the CRM keeps
\* the records already created.
C22_FailureCaughtNotRolledBack ==
    /\ [](Uploading =>
            \A i \in DOMAIN request.results :
               LET result == request.results[i]
               IN /\ result["status"] \in {PStr("success"), PStr("failed")}
                  /\ result["status"] = PStr("success") <=> result["error"] = None
                  /\ result["total_time"] = Elapsed)
    /\ [][(Uploading /\ request.phase = "files"
           /\ Len(request'.results) = Len(request.results) + 1)
          => LET result == request'.results[Len(request'.results)]
                 written == request.run.step # "start"
             IN /\ request'.run = NoRun
                /\ request'.index = request.index + 1
                /\ result["status"] = PStr("success") <=> request.run.step = "save"
                /\ \A i \in DOMAIN crm : i \in DOMAIN crm' /\ crm'[i] = crm[i]
                /\ filesystem.outputs \subseteq filesystem'.outputs
                /\ written =>
                      /\ request.run.result["status"] = PStr("success")
                      /\ result["output_path"] = request.run.result["output_path"]
                      /\ result["output_path"] # None
                      /\ result["filename"].chars \in filesystem'.outputs
                /\ ~written => result["output_path"] = None]_vars

\* A run failed at its upload to object storage after its document was written
\* and its CRM record created: the result is "failed" and both are still there.
C22_Witness ==
    /\ Uploading
    /\ \E i \in DOMAIN request.results :
          LET result == request.results[i]
          IN /\ result["status"] = PStr("failed")
             /\ result["error"] # None
             /\ result["output_path"] # None
             /\ result["filename"].chars \in filesystem.outputs
             /\ Truthy(result["airtable_record_id"])
             /\ \E id \in DOMAIN crm : crm[id].table = "Details"

\* C23: a result carries a contract_id only if the upload to object storage
\* and the insert into the database both succeeded: its s3_link and its
\* mongodb_id are set and a contract record with that contract_id is stored
\* (stated for a service whose database was enabled at startup).
C23_ContractIdOnlyWhenStored ==
    mongo_collection = "Collection" =>
    \A i \in WithContractId :
       LET result == ResultsSoFar[i]
       IN /\ Truthy(result["s3_link"])
          /\ result["mongodb_id"] # None
          /\ FindOne(collection, result["contract_id"].chars) # 0

(***************************************************************************)
(* Reviewer submissions call by call (lines 201-398, 692-750).  Two worker *)
(* processes of the service each serve one submission; they share the      *)
(* database and the CRM and nothing else, so their calls interleave.       *)
(***************************************************************************)
\* The document a processed PDF had: four of the template's tables.
OriginalDocument ==
    [t \in {"Account", "Contacts", "Details", "R & A"} |->
        IF t = "Details" THEN Fields1("Agreement Name", ValueField(PStr("Deal")))
        ELSE CHOOSE d \in TableSamples(t) : TRUE]

\* What process_single_pdf left for that PDF (lines 480-526) when the creates
\* of the tables in created returned and the others raised: the records of
\* the CRM, then the utilities record if its create returned, and the
\* contract record with the map of their ids.
StoredContract(created, utilities) ==
    LET tables == SelectSeq(Items(OriginalDocument), LAMBDA t : t \in created)
        name == ResolveAgreementName(OriginalDocument)
        IdOf(t) == IF \E i \in DOMAIN tables : tables[i] = t
                   THEN CHOOSE i \in DOMAIN tables : tables[i] = t ELSE 0
        records == [i \in DOMAIN tables |->
                      Record(AirtableTableName(tables[i]),
                             IF tables[i] \in {"Account", "Contacts"}
                             THEN FirstPassRecordData(tables[i], OriginalDocument[tables[i]])
                             ELSE SecondPassRecordData(tables[i],
                                                       OriginalDocument[tables[i]], name,
                                                       IdOf("Account"), IdOf("Contacts")))]
        ids == [n \in {AirtableTableName(tables[i]) : i \in DOMAIN tables} |->
                  CHOOSE i \in DOMAIN tables : AirtableTableName(tables[i]) = n]
        link == update_amendment_changes_table(Uuid(1), name, records, utilities)
        s3_url == upload_to_s3(TRUE, <<"contracts/", <<"a">>, ".pdf">>, "url").s3_url
    IN [crm |-> link.crm,
        collection |-> <<ContractRecord(Uuid(1), <<"a">>, s3_url, ids, OriginalDocument,
                                        link.id, 1)>>]

\* The creates that returned for the stored contract.
CreatedTables ==
    { {"Account", "Contacts", "Details"}, {"Details", "R & A"}, {} }

\* The documents reviewers send back: one edits the four tables, the other
\* renames the agreement, drops the parties and carries the legacy key.
EditedDocuments ==
    << [t \in {"Account", "Contacts", "Details", "R & A"} |->
          IF t = "Details" THEN Fields1("Agreement Name", ValueField(PStr("Deal")))
          ELSE CHOOSE d \in TableSamples(t) : TRUE],
       [t \in {"Details", "R & A", "Amendment Changes"} |->
          CASE t = "Details" -> Fields1("Agreement Name", ValueField(PStr("Other")))
            [] t = "R & A" -> Fields1("Royalty Basis", ValueField(PStr("Gross")))
            [] OTHER -> PStr("")] >>

Workers == {1, 2}

\* A submission in a worker: its request, the locals of lines 215-274, and
\* the calls it has made so far.
Submission(contract_id, submitted) ==
    [contract_id |-> contract_id, json_file |-> submitted, pc |-> "find",
     stored |-> None, updates |-> <<>>, mongodb_updated |-> FALSE,
     updated_tables |-> <<>>, error |-> "None", calls |-> <<>>]

\* request.writers remembers, for the contract record and for each record of
\* the CRM, the worker whose write reached it last (0: none has).
InitSubmissions ==
    /\ config \in {c \in Configurations : c.s3 /\ c.uri /\ c.database /\ c.collection /\ c.live}
    /\ mongo_collection = MongoCollection(config)
    /\ \E created \in CreatedTables, utilities \in BOOLEAN :
          LET store == StoredContract(IF config.airtable THEN created ELSE {},
                                      config.airtable /\ utilities)
          IN /\ collection = store.collection
             /\ crm = store.crm
    /\ clock = 1
    /\ external_calls = <<>>
    /\ filesystem = [temp |-> EmptyDict, outputs |-> {}]
    /\ \E other_id \in {Uuid(0), Uuid(1)} :
          request = [endpoint |-> "submissions",
                     workers |-> <<Submission(Uuid(1), EditedDocuments[1]),
                                   Submission(other_id, EditedDocuments[2])>>,
                     writers |-> [database |-> 0, crm |-> [id \in DOMAIN crm |-> 0]]]
    /\ response = [w \in Workers |-> Answer([endpoint |-> "none"], 0, None)]
    /\ IdleDoc
    /\ IdleText
    /\ IdleFlat
    /\ IdleCrm

\* line 229-233: find_one returns the document, returns nothing, or raises
SubmissionFind(w) ==
    /\ request.endpoint = "submissions"
    /\ request.workers[w].pc = "find"
    /\ LET s == request.workers[w]
           at == FindOne(collection, s.contract_id)
           called == Append(s.calls, Call("mongodb", "find_one", s.contract_id))
       IN \/ request' = [request EXCEPT !.workers[w].pc = "answer",
                                        !.workers[w].error = "exception",
                                        !.workers[w].calls = called]
          \/ /\ at = 0
             /\ request' = [request EXCEPT !.workers[w].pc = "answer",
                                           !.workers[w].error = "not found in MongoDB",
                                           !.workers[w].calls = called]
          \/ /\ at # 0
             /\ request' = [request EXCEPT !.workers[w].pc = "write",
                                           !.workers[w].stored = collection[at],
                                           !.workers[w].calls = called]
    /\ UNCHANGED <<config, mongo_collection, collection, crm, external_calls, filesystem,
                   response, clock, notApp>>

\* lines 241-258: update_one sets the three fields, or raises
SubmissionWrite(w) ==
    /\ request.endpoint = "submissions"
    /\ request.workers[w].pc = "write"
    /\ LET s == request.workers[w]
           at == FindOne(collection, s.contract_id)
           Called(failed) ==
               Append(s.calls, Call("mongodb", "update_one",
                                    [contract_id |-> s.contract_id, set |-> s.json_file,
                                     raised |-> failed]))
       IN \/ /\ collection' = [collection EXCEPT
                                  ![at] = SetReviewed(@, s.json_file, clock + 1)]
             /\ request' = [request EXCEPT !.workers[w].pc = "prepare",
                                           !.workers[w].mongodb_updated = TRUE,
                                           !.workers[w].calls = Called(FALSE),
                                           !.writers.database = w]
          \/ /\ request' = [request EXCEPT !.workers[w].pc = "answer",
                                           !.workers[w].error = "exception",
                                           !.workers[w].calls = Called(TRUE)]
             /\ UNCHANGED collection
    /\ clock' = clock + 1
    /\ UNCHANGED <<config, mongo_collection, crm, external_calls, filesystem, response,
                   notApp>>

\* lines 264-282: the CRM part is skipped, or its client and the agreement
\* name are made ready, or that raises and lines 395-398 catch it
SubmissionPrepare(w) ==
    /\ request.endpoint = "submissions"
    /\ request.workers[w].pc = "prepare"
    /\ LET s == request.workers[w]
       IN IF ~(config.airtable /\ Truthy(s.stored["record_id"]))
          THEN request' = [request EXCEPT !.workers[w].pc = "answer"]
          ELSE \/ request' = [request EXCEPT
                                 !.workers[w].pc = "sync",
                                 !.workers[w].updates = CrmUpdates(s.stored, s.json_file)]
               \/ request' = [request EXCEPT !.workers[w].pc = "answer",
                                             !.workers[w].error = "exception"]
    /\ UNCHANGED <<config, mongo_collection, collection, crm, external_calls, filesystem,
                   response, clock, notApp>>

\* lines 311, 362, 376, 385: the next table.update returns or raises
SubmissionSync(w) ==
    /\ request.endpoint = "submissions"
    /\ request.workers[w].pc = "sync"
    /\ request.workers[w].updates # <<>>
    /\ LET s == request.workers[w]
           u == Head(s.updates)
       IN \E ok \in (IF Updatable(crm, u.table, u.id) THEN BOOLEAN ELSE {FALSE}) :
             /\ crm' = IF ok THEN [crm EXCEPT ![u.id].fields = Updated(@, u.data)] ELSE crm
             /\ request' = [request EXCEPT
                               !.workers[w].updates = Tail(@),
                               !.workers[w].updated_tables =
                                   IF ok /\ u.listed THEN Append(@, u.table) ELSE @,
                               !.workers[w].calls =
                                   Append(@, Call("crm", "update",
                                                  [table |-> u.table, id |-> u.id,
                                                   data |-> u.data, ok |-> ok])),
                               !.writers.crm =
                                   IF ok THEN [@ EXCEPT ![u.id] = w] ELSE @]
    /\ UNCHANGED <<config, mongo_collection, collection, external_calls, filesystem,
                   response, clock, notApp>>

\* lines 390-398 and 725-742: the result becomes the response
SubmissionAnswer(w) ==
    /\ request.endpoint = "submissions"
    /\ \/ request.workers[w].pc = "answer"
       \/ request.workers[w].pc = "sync" /\ request.workers[w].updates = <<>>
    /\ LET s == request.workers[w]
           req == [endpoint |-> "reviewer_submit", contract_id |-> s.contract_id,
                   json_file |-> s.json_file]
       IN response' =
             [response EXCEPT ![w] =
                 IF s.error = "not found in MongoDB" THEN Refusal(req, 404, s.error)
                 ELSE IF s.error # "None" THEN Refusal(req, 500, s.error)
                 ELSE Answer(req, 200,
                             [status |-> "success",
                              contract_id |-> s.contract_id,
                              mongodb_updated |-> s.mongodb_updated,
                              airtable_updated |-> s.updated_tables # <<>>,
                              updated_tables |-> s.updated_tables])]
    /\ request' = [request EXCEPT !.workers[w].pc = "done"]
    /\ UNCHANGED <<config, mongo_collection, collection, crm, external_calls, filesystem,
                   clock, notApp>>

NextSubmissions ==
    \E w \in Workers :
       \/ SubmissionFind(w)
       \/ SubmissionWrite(w)
       \/ SubmissionPrepare(w)
       \/ SubmissionSync(w)
       \/ SubmissionAnswer(w)

SpecSubmissions == InitSubmissions /\ [][NextSubmissions]_vars

(***************************************************************************)
(* Properties of the reviewer update path, read off each worker's calls.   *)
(***************************************************************************)
Submitting == request.endpoint = "submissions"

\* The calls a worker has made to the CRM, in order.
CrmCalls(w) == SelectSeq(request.workers[w].calls, LAMBDA c : c.service = "crm")

\* The stored map of record ids that the worker read.
StoredIds(w) ==
    IF request.workers[w].stored = None THEN EmptyDict
    ELSE request.workers[w].stored["record_id"].items

\* The CRM tables that the edited document names and the stored map holds.
Eligible(w) ==
    {n \in DOMAIN StoredIds(w) :
        \E t \in DOMAIN request.workers[w].json_file :
           n = (IF t = "R & A" THEN "Royalties & Accounting" ELSE t)}

\* The update that links the Contacts record to the Account record.
IsLinkUpdate(w, c) ==
    /\ c.arguments.table = "Contacts"
    /\ {"Account", "Contacts"} \subseteq Eligible(w)
    /\ c.arguments.id = StoredIds(w)["Contacts"]
    /\ c.arguments.data = Fields1("Account Name", PList(<<StoredIds(w)["Account"]>>))

\* The update of the utilities record, by the stored id.
IsUtilitiesUpdate(w, c) ==
    /\ c.arguments.table = "Contract Utilities"
    /\ request.workers[w].stored["amendment_changes_record_id"] = PNum(c.arguments.id)
    /\ DOMAIN c.arguments.data = {"Contract"}

\* An update of a table of the edited document, by the id the map holds.
IsTableUpdate(w, c) ==
    /\ c.arguments.table \in Eligible(w)
    /\ c.arguments.id = StoredIds(w)[c.arguments.table]
    /\ ~IsLinkUpdate(w, c)

\* The worker went through the whole CRM part and answered.
Synced(w) ==
    /\ request.workers[w].pc = "done"
    /\ response[w].status = 200
    /\ config.airtable
    /\ DOMAIN StoredIds(w) # {}

LastUpdate(w, id) ==
    LET made == CrmCalls(w)
        returned == {i \in DOMAIN made : made[i].arguments.id = id /\ made[i].arguments.ok}
    IN made[Max(returned)].arguments

\* Both submissions are for the stored contract.
SameContract ==
    \A w \in Workers : request.workers[w].contract_id = Uuid(1)

\* C26: two submissions for one contract_id run with their calls interleaved
\* and neither is refused because of the other: a submission whose own calls
\* raised nothing is answered 200 whatever the other did.  The contract
\* record holds the document of the submission whose update_one came last,
\* and each CRM record holds every field of the payload of the update that
\* reached it last; a write is applied whether or not the record changed
\* since the writer read it.
C26_LastWriteWins ==
    /\ [](Submitting =>
            /\ \A w \in Workers :
                  LET s == request.workers[w]
                  IN /\ (s.pc = "done" /\ s.error = "None" /\ s.contract_id = Uuid(1))
                        => (response[w].status = 200 /\ response[w].body.mongodb_updated)
                     /\ response[w].status \in {0, 200, 404, 500}
            /\ LET last == request.writers.database
               IN IF last = 0 THEN "reviewed" \notin DOMAIN collection[1]
                  ELSE /\ collection[1]["actual_json"] = PDict(request.workers[last].json_file)
                       /\ collection[1]["reviewed"] = TRUE
            /\ \A id \in DOMAIN crm :
                  LET last == request.writers.crm[id]
                  IN last # 0 =>
                        LET payload == LastUpdate(last, id).data
                        IN \A k \in DOMAIN payload :
                              k \in DOMAIN crm[id].fields /\ crm[id].fields[k] = payload[k])
    /\ [][Submitting =>
            \A w \in Workers :
               (request.workers[w].pc = "write" /\ request'.workers[w].pc = "prepare")
               => /\ collection'[1]["actual_json"] = PDict(request.workers[w].json_file)
                  /\ request'.writers.database = w]_vars

\* Both submissions were answered 200; the contract record holds the document
\* of the second worker, which wrote it last, while the Details record of the
\* CRM holds the agreement name of the first worker, whose update of it came
\* after that of the second.
C26_Witness ==
    /\ Submitting /\ SameContract
    /\ \A w \in Workers : request.workers[w].pc = "done" /\ response[w].status = 200
    /\ request.writers.database = 2
    /\ collection[1]["actual_json"] = PDict(EditedDocuments[2])
    /\ \E id \in DOMAIN crm :
          /\ crm[id].table = "Details"
          /\ request.writers.crm[id] = 1
          /\ \A w \in Workers :
                \E i \in DOMAIN CrmCalls(w) :
                   CrmCalls(w)[i].arguments.id = id /\ CrmCalls(w)[i].arguments.ok
          /\ crm[id].fields["Agreement Name"] = PStr("Deal")

\* C27: the files of a /process-pdf request are processed one after another in
\* upload order: while a file is being processed the results hold exactly
\* those of the files before it, and each result is appended before the next
\* file starts.  A file that fails yields a "failed" result and the loop goes
\* on.  The 200 response has one result per file, in upload order, and its
\* counts of successful and failed add up to total_files.
C27_FilesProcessedInOrder ==
    /\ [](Uploading =>
            /\ Len(request.results) <= Len(request.files)
            /\ request.phase = "files" => request.index = Len(request.results) + 1
            /\ request.run.step # "start" =>
                  /\ request.phase = "files"
                  /\ request.index <= Len(request.files)
                  /\ request.run.result["filename"].chars =
                        SubSeq(request.files[request.index], 1,
                               Len(request.files[request.index]) - 4)
            /\ \A i \in DOMAIN request.results :
                  /\ request.results[i]["filename"].chars =
                        SubSeq(request.files[i], 1, Len(request.files[i]) - 4)
                  /\ request.results[i]["status"] \in {PStr("success"), PStr("failed")}
            /\ response.status = 200 =>
                  LET body == response.body
                      Count(status) ==
                          Cardinality({i \in DOMAIN body.results :
                                          body.results[i]["status"] = PStr(status)})
                  IN /\ body.results = request.results
                     /\ Len(body.results) = Len(request.files)
                     /\ body.summary.total_files = Len(request.files)
                     /\ body.summary.successful = Count("success")
                     /\ body.summary.failed = Count("failed")
                     /\ body.summary.successful + body.summary.failed
                           = body.summary.total_files)
    /\ [][(Uploading /\ request'.results # request.results)
          => /\ Len(request'.results) = Len(request.results) + 1
             /\ SubSeq(request'.results, 1, Len(request.results)) = request.results
             /\ request'.phase = "files"
             /\ request'.run = NoRun
             /\ request'.index = request.index + 1]_vars

\* The first of two files failed before its document was written, the second
\* was processed after it, and the response is 200 with one of each.
C27_Witness ==
    /\ Uploading /\ request.phase = "done"
    /\ response.status = 200
    /\ Len(request.files) = 2
    /\ request.results[1]["status"] = PStr("failed")
    /\ request.results[1]["output_path"] = None
    /\ request.results[2]["status"] = PStr("success")
    /\ response.body.summary = [total_files |-> 2, successful |-> 1, failed |-> 1]

\* C28: every utilities record that process_single_pdf created carries a Link
\* "{frontend_url}/{contract_id}" whose contract_id is that of a contract
\* record stored in the database once the run has returned (stated for a
\* service whose database was enabled at startup).
C28_ReviewerLinkNamesStoredContract ==
    (Uploading /\ mongo_collection = "Collection" /\ request.run.step = "start") =>
       \A id \in UtilitiesRecords :
          \E i \in DOMAIN collection :
             crm[id].fields["Link"] =
                PChars(<<"frontend_url", "/", collection[i]["contract_id"].chars>>)

\* The positions, among a worker's calls, of the update_one calls that returned.
Writes(w) ==
    {i \in DOMAIN request.workers[w].calls :
        /\ request.workers[w].calls[i].op = "update_one"
        /\ ~request.workers[w].calls[i].arguments.raised}

\* C30: in a submission the write to the database comes before every update
\* of the CRM, and nothing takes it back: only update_one changes the contract
\* record, so when a table update raises, or an exception after the write ends
\* the submission with 500, the record keeps a submitted document with
\* reviewed = TRUE whatever the CRM holds.
C30_DatabaseWrittenFirstAndKept ==
    /\ [](Submitting =>
            /\ \A w \in Workers :
                  LET s == request.workers[w]
                  IN /\ \A i \in DOMAIN s.calls :
                           s.calls[i].service = "crm" => \E j \in Writes(w) : j < i
                     /\ Cardinality(Writes(w)) <= 1
                     /\ s.mongodb_updated = (Writes(w) # {})
                     /\ s.mongodb_updated =>
                           /\ "reviewed" \in DOMAIN collection[1]
                           /\ collection[1]["reviewed"] = TRUE
                     /\ (s.pc = "done" /\ response[w].status = 200) => s.mongodb_updated
            /\ (\E w \in Workers : Writes(w) # {}) =>
                  \E w \in Workers :
                     /\ Writes(w) # {}
                     /\ collection[1]["actual_json"] = PDict(request.workers[w].json_file))
    /\ [][(Submitting /\ collection' # collection)
          => \E w \in Workers :
                /\ request.workers[w].pc = "write"
                /\ request'.workers[w].pc = "prepare"
                /\ crm' = crm]_vars

\* The second submission was answered 500 after its write: the database holds
\* its document, marked reviewed, and the Details record of the CRM still has
\* the agreement name of before; the first was answered 200 with fewer
\* updated tables than it asked updates for.
C30_Witness ==
    /\ Submitting /\ SameContract
    /\ \A w \in Workers : request.workers[w].pc = "done"
    /\ response[2].status = 500
    /\ request.workers[2].mongodb_updated
    /\ request.writers.database = 2
    /\ collection[1]["actual_json"] = PDict(EditedDocuments[2])
    /\ collection[1]["reviewed"] = TRUE
    /\ \E id \in DOMAIN crm :
          crm[id].table = "Details" /\ crm[id].fields["Agreement Name"] = PStr("Deal")
    /\ response[1].status = 200
    /\ Len(response[1].body.updated_tables) < Cardinality(Eligible(1))
====
